---- MODULE Spec2Model ----
(***************************************************************************)
(* Transport core of mythicbeasts-client-go: the bearer-token lifecycle    *)
(* (Client.ensureToken, Client.markTokenUsed, tokenExpired, Client.signIn),*)
(* the request executor Client.Do and the provisioning poller              *)
(* Client.PollProvisioning, run by several goroutines sharing one Client.  *)
(*                                                                         *)
(* Time is in whole seconds.  Tokens are numbers: NoToken is the empty     *)
(* string, PresetToken a token the owner stored in the exported field      *)
(* Client.Token, and the auth endpoint answers its k-th sign-in request    *)
(* with the access token k + 1 (or with an empty access_token).  Each      *)
(* goroutine makes one call; the calls are numbered in the order they      *)
(* start.                                                                  *)
(***************************************************************************)
EXTENDS Integers, Sequences, FiniteSets, TLC

\* ------------------------------------------------------------ bounds
NumCallers == 2
MaxTime == 2
PollInterval == 1
MaxTimeout == 2
MaxLife == 31
MaxClock == 26

\* ------------------------------------------------- program constants
\* the zero time.Time (client.go:168); the clock starts after it
ZeroTime == 0
\* the empty string as a token (client.go:135)
NoToken == 0
\* 10*time.Second, the safety margin (client.go:183)
Margin == 10
StatusOK == 200
StatusAccepted == 202
StatusSeeOther == 303
StatusTeapot == 418
StatusInternalServerError == 500
StatusUnauthorized == 401
StatusNoContent == 204
StatusNotFound == 404
StatusConflict == 409
\* const max of truncateBody (client.go:262)
BodyMax == 512

PresetToken == NoToken + 1
Callers == 1..NumCallers
NoCaller == 0
\* expires_in of a sign-in answer: none, inside the margin, just beyond it
Lifetimes == {0, Margin \div 2, Margin + 1}
\* DefaultRebootGracePeriod and DefaultShutdownGracePeriod, both
\* 2*time.Minute (part_000:235, 237), on the model's clock
DefaultGracePeriod == MaxTimeout
\* grace periods a caller may give: negative, zero, shorter than the default
GracePeriods == (0 - 1)..1
Statuses == {StatusOK, StatusAccepted, StatusSeeOther, StatusTeapot, StatusInternalServerError}
\* statuses of the auth endpoint's answers
AuthStatuses == {StatusOK, StatusUnauthorized}
Locations == {"", "/ready/123"}
\* str doubled n times
RECURSIVE Double(_, _)
Double(str, n) == IF n = 0 THEN str ELSE Double(str \o str, n - 1)
\* a body of 513 bytes, one more than truncateBody lets through
\* (client.go:262)
LongBody == Double("x", 9) \o "y"
\* response bodies: not JSON, short and long, the JSON value null, a JSON
\* object with status "pending", a JSON object with status "running"
Bodies == {"boom", LongBody, "null", "pending", "running"}
CheckURL == "/vps/servers/id"
\* ctx.Err() of a cancelled context, and the *url.Error http.Client.Do
\* wraps it in
CtxErr == "context canceled"
DoCtxErr == "Get url: context canceled"

VARIABLES
    Token,            \* Client.Token
    tokenExpiresIn,   \* Client.tokenExpiresIn, seconds
    tokenLastUsedAt,  \* Client.tokenLastUsedAt, ZeroTime when unset
    KeyID,            \* Client.Auth.KeyID != ""
    Secret,           \* Client.Auth.Secret != ""
    piService,        \* Client.piService: NoCaller for nil, else the goroutine
                      \*   whose pi.NewService made the Service it points to
    muWriter,         \* Client.authMu: the goroutine holding Lock, or NoCaller
    muReaders,        \* Client.authMu: the goroutines holding RLock
    now,              \* the wall clock
    signInCalls,      \* sign-in requests that reached the auth endpoint
    signInFailed,     \* history: some sign-in yielded no token (an error, or an
                      \*   empty access_token)
    lifetimeDeclared, \* history: some sign-in answer declared a positive lifetime
    declared,         \* history: the lifetime the auth endpoint declared with the stored Token
    stamped,          \* history: tokenLastUsedAt was written since the stored Token was stored
    init0,            \* history: the token fields when the callers started
    probe,            \* the result of applying tokenExpired, "" before; under
                      \*   SpecURL the arguments and the result of NewRequest
    returned,         \* what a call other than a plain Do last returned, since the
                      \*   latest start of a call
    g                 \* per call: position and locals

\* the fields of the Client that no token operation writes
credVars == <<KeyID, Secret, piService>>
clientVars == <<Token, tokenExpiresIn, tokenLastUsedAt, credVars>>
muVars == <<muWriter, muReaders>>
histVars == <<signInFailed, lifetimeDeclared, declared, stamped, init0, probe>>
vars == <<Token, tokenExpiresIn, tokenLastUsedAt, KeyID, Secret, piService, muWriter, muReaders,
          now, signInCalls, signInFailed, lifetimeDeclared, declared, stamped, init0,
          probe, returned, g>>

\* ------------------------------------------------------ pure functions

\* c.Auth.KeyID != "" && c.Auth.Secret != "" (client.go:132), and its
\* negation as ensureToken spells it under the lock (client.go:151, 158)
hasCreds == KeyID /\ Secret

\* signIn's guard taken for "both blank"
blankCredsBoth == ~KeyID /\ ~Secret

\* c.Auth.KeyID == "" || c.Auth.Secret == "" (auth.go:21)
blankCreds == ~KeyID \/ ~Secret

Max(a, b) == IF a >= b THEN a ELSE b

\* time.Time.IsZero
IsZero(t) == t = ZeroTime

\* time.Since(lastUsedAt)
Since(t) == now - t

\* a lapse of the zero check: a token never used counts from the zero time
tokenExpiredNoZeroCheck(expiresIn, lastUsedAt) ==
    IF expiresIn <= 0
    THEN FALSE
    ELSE LET expiry == IF expiresIn - Margin < 0 THEN 0 ELSE expiresIn - Margin
         IN  Since(lastUsedAt) >= expiry

\* the comparison made strict
tokenExpiredStrict(expiresIn, lastUsedAt) ==
    IF expiresIn <= 0 \/ IsZero(lastUsedAt)
    THEN FALSE
    ELSE LET expiry == IF expiresIn - Margin < 0 THEN 0 ELSE expiresIn - Margin
         IN  Since(lastUsedAt) > expiry

\* the margin taken off the elapsed time as well
tokenExpiredEarly(expiresIn, lastUsedAt) ==
    IF expiresIn <= 0 \/ IsZero(lastUsedAt)
    THEN FALSE
    ELSE LET expiry == IF expiresIn - Margin < 0 THEN 0 ELSE expiresIn - Margin
         IN  Since(lastUsedAt) + Margin >= expiry

\* tokenExpired (client.go:179-188)
tokenExpired(expiresIn, lastUsedAt) ==
    IF expiresIn <= 0 \/ IsZero(lastUsedAt)
    THEN FALSE
    ELSE LET expiry == IF expiresIn - Margin < 0 THEN 0 ELSE expiresIn - Margin
         IN  Since(lastUsedAt) >= expiry

\* the completion predicate the caller passes to PollProvisioning
\* (as vps.Create passes it, vps.go:168-175)
check(data) == IF data = "running" THEN <<CheckURL, TRUE>> ELSE <<"", FALSE>>

\* json.Unmarshal(body, &data) into a map[string]any succeeds: on a JSON
\* object, and on null, which leaves the map nil
Decodes(body) == body \notin {"boom", LongBody}

\* ------------------------------------------------------ goroutine state

Idle == [pc |-> "idle", op |-> "none",
         token |-> NoToken, expiresIn |-> 0, lastUsedAt |-> ZeroTime,
         declared |-> 0, stamped |-> FALSE,
         retToken |-> NoToken, err |-> "",
         arToken |-> NoToken, arExpiresIn |-> 0,
         auth |-> "", bearer |-> NoToken, marks |-> 0,
         ctxDone |-> FALSE, deadline |-> 0, wake |-> 0,
         polls |-> 0, checks |-> 0,
         ret |-> "none", url |-> "",
         in |-> "nil", out |-> FALSE, allowed |-> {},
         res |-> FALSE, body |-> "", outVal |-> "untouched",
         reads |-> 0, drained |-> 0, closes |-> 0,
         svc |-> "", identifier |-> "", status |-> 0,
         phase |-> "", location |-> "", pollRet |-> "",
         waitFrom |-> 0, gracePeriod |-> 0]

\* what GetJSON and DoJSON leave behind: whether out was given, the
\* response and body they return, the value out points to, and how often
\* the response's body was read, read to its end and closed; this is what
\* a call that is neither has of it
NoJSON == [out |-> FALSE, res |-> FALSE, body |-> "", outVal |-> "untouched",
           reads |-> 0, drained |-> 0, closes |-> 0]

\* what a service operation leaves behind: its name, the identifier it was
\* given and the status of the response it looked at; of Create the step
\* it got to (the POST, the polling, the fetch), the status and the
\* Location of the POST's answer, and what PollProvisioning returned.
\* This is what a call of the client itself has of it.
NoSvc == [name |-> "", identifier |-> "", status |-> 0,
          phase |-> "", location |-> "", pollRet |-> ""]

\* a goroutine whose call has returned
Done == [Idle EXCEPT !.pc = "done"]

\* no call has returned
NoReturn == [call |-> NoCaller, op |-> "none", ret |-> "none", url |-> "",
             polls |-> 0, checks |-> 0, token |-> NoToken, expiresIn |-> 0,
             json |-> NoJSON, svc |-> NoSvc]

\* Do entered with the request's Authorization header as it stands (client.go:97)
EnterDo(s) ==
    [s EXCEPT !.pc = IF s.auth = "" THEN "ensure_rlock" ELSE "dispatch",
              !.marks = 0, !.retToken = NoToken, !.err = ""]

\* the default never taken: a timer of no duration fires at once
waitWithDefaultGraceNoDefault(s) ==
    [s EXCEPT !.phase = "wait",
              !.pc = IF s.ctxDone THEN "grace_ctx" ELSE "grace_select",
              !.wake = now + (IF s.gracePeriod <= 0 THEN 0 ELSE s.gracePeriod)]

\* waitWithDefaultGrace up to its select (part_000:332-343): the timer is
\* set to the grace period, to the default if that is not positive, and
\* the select takes <-ctx.Done() at once if the context is done
waitWithDefaultGrace(s) ==
    [s EXCEPT !.phase = "wait",
              !.pc = IF s.ctxDone THEN "grace_ctx" ELSE "grace_select",
              !.wake = now + (IF s.gracePeriod <= 0 THEN DefaultGracePeriod
                                                    ELSE s.gracePeriod)]

\* the call returns (ret, url): ret is "ok" or the error.  When it is the
\* PollProvisioning of a Create, Create returns its error, or goes on to
\* fetch the server from the URL it returned, with a new request (pi.go:
\* 216-224, vps.go:177-185).  When it is the Reboot or SetPower of a
\* RebootWithGrace or ShutdownWithGrace, that returns its error with a zero
\* response, or goes on to wait (part_000:285-294, 320-329)
Finished(s, ret, url) ==
    IF s.op = "poll" /\ s.phase = "poll"
    THEN IF ret # "ok"
         THEN [s EXCEPT !.pc = "done", !.ret = ret, !.url = url,
                        !.op = "Create", !.pollRet = ret]
         ELSE EnterDo([s EXCEPT !.op = "Create", !.phase = "fetch", !.pollRet = ret,
                                !.url = url, !.auth = "", !.bearer = NoToken,
                                !.deadline = 0, !.wake = 0, !.polls = 0, !.checks = 0])
    ELSE IF s.phase = "request"
    THEN IF ret # "ok"
         THEN [s EXCEPT !.pc = "done", !.ret = ret, !.url = url, !.outVal = "untouched"]
         ELSE waitWithDefaultGrace(s)
    ELSE [s EXCEPT !.pc = "done", !.ret = ret, !.url = url]

\* call c moves to s; a call that returns ends, and a call other than a
\* plain Do hands over what it returns (for signIn the AuthResponse)
Step(c, s) ==
    /\ g' = [g EXCEPT ![c] = IF s.pc = "done" THEN Done ELSE s]
    /\ returned' = IF s.pc = "done" /\ s.op # "do"
                   THEN [call |-> c, op |-> s.op, ret |-> s.ret, url |-> s.url,
                         polls |-> s.polls, checks |-> s.checks,
                         token |-> s.arToken, expiresIn |-> s.arExpiresIn,
                         json |-> [out |-> s.out, res |-> s.res, body |-> s.body,
                                   outVal |-> s.outVal,
                                   reads |-> s.reads, drained |-> s.drained,
                                   closes |-> s.closes],
                         svc |-> [name |-> s.svc, identifier |-> s.identifier,
                                  status |-> s.status, phase |-> s.phase,
                                  location |-> s.location, pollRet |-> s.pollRet]]
                   ELSE returned

\* a call starts
Start(c, s) ==
    /\ g[c].pc = "idle"
    /\ \A d \in Callers : d < c => g[d].pc # "idle"
    /\ g' = [g EXCEPT ![c] = s]
    /\ returned' = NoReturn

\* ------------------------------------------------------------- Init
\* NewClient (client.go:68-92) leaves the token fields zero.  Token is an
\* exported field and the package's tests preset tokenExpiresIn and
\* tokenLastUsedAt (TestDo_AddsBearerToken, TestEnsureToken_RefreshesWhenExpired),
\* so a stored token with any lifetime and last use is a start state as well.
Init ==
    /\ KeyID \in BOOLEAN
    /\ Secret \in BOOLEAN
    /\ piService = NoCaller
    /\ Token \in {NoToken, PresetToken}
    /\ tokenExpiresIn \in (IF Token = NoToken THEN {0} ELSE Lifetimes)
    /\ tokenLastUsedAt \in (IF Token = NoToken THEN {ZeroTime} ELSE {ZeroTime, 1})
    /\ muWriter = NoCaller
    /\ muReaders = {}
    /\ now = 1
    /\ signInCalls = 0
    /\ signInFailed = FALSE
    /\ lifetimeDeclared = FALSE
    /\ declared = tokenExpiresIn
    /\ stamped = ~IsZero(tokenLastUsedAt)
    /\ init0 = [Token |-> Token, tokenExpiresIn |-> tokenExpiresIn,
                tokenLastUsedAt |-> tokenLastUsedAt]
    /\ probe = ""
    /\ returned = NoReturn
    /\ g = [c \in Callers |-> Idle]

\* ------------------------------------------------------- Client.Do

\* the request dispatched once more after an error
DoFailRetries(s, err) == [s EXCEPT !.pc = "dispatch", !.err = ""]

\* Do returns (nil, err) (client.go:99-101, 112-114); PollProvisioning
\* returns ("", err) on it (client.go:296-298)
DoFail(s, err) == Finished(s, err, "")

\* the error of ensureToken passed over
AfterEnsureIgnoresErr(s, token, err) ==
    IF token # NoToken
    THEN [s EXCEPT !.pc = "mark_lock", !.token = NoToken, !.retToken = token,
                   !.auth = "Bearer", !.bearer = token]
    ELSE [s EXCEPT !.pc = "dispatch", !.token = NoToken, !.retToken = token]

\* Do after ensureToken returned (token, err) (client.go:98-106)
AfterEnsure(s, token, err) ==
    IF err # ""
    THEN DoFail(s, err)
    ELSE IF token # NoToken
         THEN [s EXCEPT !.pc = "mark_lock", !.token = NoToken, !.retToken = token,
                        !.auth = "Bearer", !.bearer = token]
         ELSE [s EXCEPT !.pc = "dispatch", !.token = NoToken, !.retToken = token]

\* a caller builds a request, with or without its own Authorization
\* header, and calls Do
DoStart(c, preset) ==
    /\ Start(c, EnterDo([Idle EXCEPT !.op = "do",
                                   !.auth = IF preset THEN "Basic" ELSE ""]))
    /\ UNCHANGED <<clientVars, muVars, now, signInCalls, histVars>>

\* ------------------------------------------------- Client.ensureToken

\* a lock that excludes nobody
NoExclusion(c) == TRUE

\* sync.RWMutex: RLock is granted while no goroutine holds Lock
CanRLock(c) == muWriter = NoCaller

\* sync.RWMutex: Lock is granted while no goroutine holds Lock or RLock
CanLock(c) == muWriter = NoCaller /\ muReaders = {}

\* the expiry looked at before the credentials
ensureTokenFastExpiryFirst(token, expiresIn, lastUsedAt) ==
    IF token # NoToken /\ ~tokenExpired(expiresIn, lastUsedAt)
    THEN "token"
    ELSE IF ~hasCreds
    THEN "empty"
    ELSE "lock"

\* ensureToken's decision on the values read under RLock
\* (client.go:135-145): return the token, return "", or take the lock
ensureTokenFast(token, expiresIn, lastUsedAt) ==
    IF token # NoToken /\ ~hasCreds
    THEN "token"
    ELSE IF token # NoToken /\ ~tokenExpired(expiresIn, lastUsedAt)
    THEN "token"
    ELSE IF ~hasCreds
    THEN "empty"
    ELSE "lock"

\* the re-validation under Lock left out
ensureTokenSlowNoRecheck ==
    IF ~hasCreds
    THEN IF Token # NoToken THEN "token" ELSE "empty"
    ELSE "signin"

\* ensureToken's decision under Lock (client.go:150-160): return
\* c.Token, return "", or sign in
ensureTokenSlow ==
    IF Token # NoToken /\ ~hasCreds
    THEN "token"
    ELSE IF Token # NoToken /\ ~tokenExpired(tokenExpiresIn, tokenLastUsedAt)
    THEN "token"
    ELSE IF ~hasCreds
    THEN "empty"
    ELSE "signin"

\* client.go:128-132
EnsureRLock(c) ==
    /\ g[c].pc = "ensure_rlock"
    /\ CanRLock(c)
    /\ muReaders' = muReaders \cup {c}
    /\ Step(c, [g[c] EXCEPT !.pc = "ensure_runlock",
                             !.token = Token,
                             !.expiresIn = tokenExpiresIn,
                             !.lastUsedAt = tokenLastUsedAt,
                             !.declared = declared,
                             !.stamped = stamped])
    /\ UNCHANGED <<clientVars, muWriter, now, signInCalls, histVars>>

\* the sign-in exchanges that were over when call c came to c.authMu.Lock()
\* (client.go:147): those that reached the auth endpoint, less the one
\* another call is waiting on
SignInsOver(c) ==
    IF \E d \in DOMAIN g : d # c /\ g[d].pc = "signin_wait"
    THEN signInCalls - 1
    ELSE signInCalls

\* client.go:133-145; a call that goes on to c.authMu.Lock() notes the
\* sign-in exchanges that are over (history)
EnsureRUnlock(c) ==
    /\ g[c].pc = "ensure_runlock"
    /\ muReaders' = muReaders \ {c}
    /\ LET s == g[c]
           t == [s EXCEPT !.expiresIn = 0, !.lastUsedAt = ZeroTime,
                          !.declared = 0, !.stamped = FALSE]
           d == ensureTokenFast(s.token, s.expiresIn, s.lastUsedAt)
       IN  Step(c, IF d = "token" THEN AfterEnsure(t, s.token, "")
                   ELSE IF d = "empty" THEN AfterEnsure(t, NoToken, "")
                   ELSE [t EXCEPT !.pc = "ensure_lock", !.waitFrom = SignInsOver(c)])
    /\ UNCHANGED <<clientVars, muWriter, now, signInCalls, histVars>>

\* client.go:147-160
EnsureLock(c) ==
    /\ g[c].pc = "ensure_lock"
    /\ CanLock(c)
    /\ muWriter' = c
    /\ LET s == [g[c] EXCEPT !.waitFrom = 0]
           d == ensureTokenSlow
       IN  Step(c, IF d = "token" THEN [s EXCEPT !.pc = "ensure_unlock", !.retToken = Token]
                   ELSE IF d = "empty"
                   THEN [s EXCEPT !.pc = "ensure_unlock", !.retToken = NoToken]
                   ELSE [s EXCEPT !.pc = "signin"])
    /\ UNCHANGED <<clientVars, muReaders, now, signInCalls, histVars>>

\* ------------------------------------------------------ Client.signIn

\* what the transport may hand back for the sign-in request: an error, a
\* response whose body cannot be read, or a response with a status and a
\* body, which is either not JSON or a JSON object with access_token and
\* expires_in
AuthResponses ==
    {[kind |-> "transport", status |-> 0, body |-> "", token |-> NoToken, expiresIn |-> 0]}
    \cup {[kind |-> "body unreadable", status |-> st, body |-> "",
           token |-> NoToken, expiresIn |-> 0] : st \in AuthStatuses}
    \cup {[kind |-> "response", status |-> st, body |-> "nope",
           token |-> NoToken, expiresIn |-> 0] : st \in AuthStatuses}
    \cup {[kind |-> "response", status |-> st, body |-> "{token}",
           token |-> t, expiresIn |-> e] :
            st \in AuthStatuses, t \in {NoToken, signInCalls + 1}, e \in Lifetimes}

\* the status never looked at
signInResultNoStatus(r) ==
    IF r.kind = "transport"
    THEN "transport"
    ELSE IF r.kind = "body unreadable"
    THEN "body unreadable"
    ELSE IF r.body = "nope"
    THEN "invalid character"
    ELSE ""

\* the error signIn returns on the transport's answer r, "" for none
\* (auth.go:33-53)
signInResult(r) ==
    IF r.kind = "transport"
    THEN "transport"
    ELSE IF r.kind = "body unreadable"
    THEN "body unreadable"
    ELSE IF r.status # StatusOK
    THEN "auth failed: status " \o ToString(r.status) \o ": " \o r.body
    ELSE IF r.body = "nope"
    THEN "invalid character"
    ELSE ""

\* signIn returns (nil, err) to its caller: to ensureToken, which returns
\* ("", err) (client.go:162-165), or to a caller of signIn itself
SignInFails(s, err) ==
    IF s.op = "signin"
    THEN Finished(s, err, "")
    ELSE [s EXCEPT !.pc = "ensure_unlock", !.err = err]

\* the sign-in request sent without an Authorization header
signInAuthorizationNone == ""

\* the Authorization header signIn puts on its request (auth.go:30)
signInAuthorization == "Basic"

\* signIn up to the dispatch of its request (auth.go:20-33).  The request
\* carries a Basic Authorization header, so Do (client.go:97) goes
\* straight to HTTPClient.Do, which sends nothing on a cancelled context;
\* without the header Do would enter ensureToken.
SignInSend(c) ==
    /\ g[c].pc = "signin"
    /\ IF blankCreds
       THEN /\ Step(c, SignInFails(g[c], "define keyid and secret"))
            /\ signInFailed' = TRUE
            /\ UNCHANGED signInCalls
       ELSE IF signInAuthorization = ""
       THEN /\ Step(c, [g[c] EXCEPT !.pc = "ensure_rlock"])
            /\ UNCHANGED <<signInCalls, signInFailed>>
       ELSE IF g[c].ctxDone
       THEN /\ Step(c, SignInFails(g[c], DoCtxErr))
            /\ signInFailed' = TRUE
            /\ UNCHANGED signInCalls
       ELSE /\ Step(c, [g[c] EXCEPT !.pc = "signin_wait"])
            /\ signInCalls' = signInCalls + 1
            /\ UNCHANGED signInFailed
    /\ UNCHANGED <<clientVars, muVars, now, lifetimeDeclared, declared, stamped, init0, probe>>

\* signIn from the response on (auth.go:33-53): the AuthResponse goes to
\* ensureToken, which installs it, or to a caller of signIn itself
SignInRecv(c, r) ==
    /\ g[c].pc = "signin_wait"
    /\ LET err == signInResult(r)
           s == g[c]
       IN  /\ signInFailed' = (signInFailed \/ err # "" \/ r.token = NoToken)
           /\ lifetimeDeclared' = (lifetimeDeclared \/ (err = "" /\ r.expiresIn > 0))
           /\ Step(c, IF err # ""
                      THEN SignInFails(s, err)
                      ELSE IF s.op = "signin"
                      THEN Finished([s EXCEPT !.arToken = r.token,
                                              !.arExpiresIn = r.expiresIn], "ok", "")
                      ELSE [s EXCEPT !.pc = "install_token",
                                     !.arToken = r.token, !.arExpiresIn = r.expiresIn])
    /\ UNCHANGED <<clientVars, muVars, now, signInCalls, declared, stamped, init0, probe>>

\* a caller of signIn itself, as the package's tests are
\* (TestSignIn_MissingCreds)
SignInStart(c) ==
    /\ Start(c, [Idle EXCEPT !.op = "signin", !.pc = "signin", !.auth = "Basic"])
    /\ UNCHANGED <<clientVars, muVars, now, signInCalls, histVars>>

\* client.go:166
InstallToken(c) ==
    /\ g[c].pc = "install_token"
    /\ Token' = g[c].arToken
    /\ declared' = g[c].arExpiresIn
    /\ stamped' = FALSE
    /\ Step(c, [g[c] EXCEPT !.pc = "install_expires"])
    /\ UNCHANGED <<tokenExpiresIn, tokenLastUsedAt, credVars, muVars, now,
                   signInCalls, signInFailed, lifetimeDeclared, init0, probe>>

\* client.go:167
InstallExpiresIn(c) ==
    /\ g[c].pc = "install_expires"
    /\ tokenExpiresIn' = g[c].arExpiresIn
    /\ Step(c, [g[c] EXCEPT !.pc = "install_last"])
    /\ UNCHANGED <<Token, tokenLastUsedAt, credVars, muVars, now,
                   signInCalls, histVars>>

\* client.go:168-170
InstallLastUsedAt(c) ==
    /\ g[c].pc = "install_last"
    /\ tokenLastUsedAt' = ZeroTime
    /\ Step(c, [g[c] EXCEPT !.pc = "ensure_unlock", !.retToken = Token,
                             !.arToken = NoToken, !.arExpiresIn = 0])
    /\ UNCHANGED <<Token, tokenExpiresIn, credVars, muVars, now,
                   signInCalls, histVars>>

\* the deferred Unlock (client.go:148) and the return into Do
EnsureUnlock(c) ==
    /\ g[c].pc = "ensure_unlock"
    /\ muWriter' = IF muWriter = c THEN NoCaller ELSE muWriter
    /\ Step(c, AfterEnsure(g[c], g[c].retToken, g[c].err))
    /\ UNCHANGED <<clientVars, muReaders, now, signInCalls, histVars>>

\* --------------------------------------------- Client.markTokenUsed

\* client.go:174
MarkLock(c) ==
    /\ g[c].pc = "mark_lock"
    /\ CanLock(c)
    /\ muWriter' = c
    /\ Step(c, [g[c] EXCEPT !.pc = "mark_write"])
    /\ UNCHANGED <<clientVars, muReaders, now, signInCalls, histVars>>

\* client.go:175-177
MarkWrite(c) ==
    /\ g[c].pc = "mark_write"
    /\ tokenLastUsedAt' = now
    /\ stamped' = TRUE
    /\ muWriter' = IF muWriter = c THEN NoCaller ELSE muWriter
    /\ Step(c, [g[c] EXCEPT !.pc = "dispatch", !.marks = @ + 1])
    /\ UNCHANGED <<Token, tokenExpiresIn, credVars, muReaders, now,
                   signInCalls, signInFailed, lifetimeDeclared, declared, init0, probe>>

\* ------------------------------------- HTTPClient.Do and the poller

\* what the transport may hand back for a dispatched request: an error,
\* a response whose body cannot be read, or a response with its status,
\* Location header and body
Responses ==
    {[kind |-> "transport", status |-> 0, location |-> "", body |-> ""]}
    \cup {[kind |-> "body unreadable", status |-> st, location |-> "", body |-> ""] :
            st \in Statuses}
    \cup {[kind |-> "response", status |-> st, location |-> l, body |-> b] :
            st \in Statuses, l \in Locations, b \in Bodies}

\* a plain Do caller looks at nothing but the error
DoResponses == {r \in Responses : r.kind = "transport"
                                  \/ (r.kind = "response" /\ r.status = StatusOK
                                      /\ r.location = "" /\ r.body = "running")}

\* GetJSON and DoJSON look at status and body, never at the Location header
JSONResponses == {r \in Responses : r.location = ""}

\* c.HTTPClient.Do(req) up to sending (client.go:111): nothing is sent on
\* a cancelled context
DoSend(c) ==
    /\ g[c].pc = "dispatch"
    /\ LET s == g[c]
       IN  Step(c, IF s.ctxDone
                   THEN DoFail(s, DoCtxErr)
                   ELSE IF s.op = "poll"
                   THEN [s EXCEPT !.pc = "await", !.polls = @ + 1]
                   ELSE [s EXCEPT !.pc = "await"])
    /\ UNCHANGED <<clientVars, muVars, now, signInCalls, histVars>>

\* one pass of PollProvisioning's switch over a response whose body was
\* read (client.go:304-347)
pollSwitch(s, r) ==
    LET t == s
        sleep == [t EXCEPT !.pc = "poll_sleep", !.wake = now + PollInterval]
    IN  IF r.status = StatusSeeOther
        THEN IF r.location = ""
             THEN Finished(t, "polling returned no location", "")
             ELSE Finished(t, "ok", r.location)
        ELSE IF r.status = StatusInternalServerError
        THEN Finished(t, "provisioning failed: " \o r.body, "")
        ELSE IF r.status = StatusAccepted
        THEN IF r.location # ""
             THEN Finished(t, "ok", r.location)
             ELSE sleep
        ELSE IF r.status = StatusOK
        THEN IF r.location # ""
             THEN Finished(t, "ok", r.location)
             ELSE IF ~Decodes(r.body)
             THEN Finished(t, "could not umnarshal ok json", "")
             ELSE IF check(r.body)[2]
             THEN Finished([t EXCEPT !.checks = @ + 1], "ok", check(r.body)[1])
             ELSE [sleep EXCEPT !.checks = @ + 1]
        ELSE Finished(t, "unexpected status while polling: " \o ToString(r.status), "")

\* the predicate called on the raw body, before it is decoded
PollSwitchCheckFirst(s, r) ==
    IF r.status = StatusOK /\ r.location = "" /\ ~Decodes(r.body)
    THEN Finished([s EXCEPT !.checks = @ + 1], "could not umnarshal ok json", "")
    ELSE pollSwitch(s, r)

\* a 202 without Location falling through to the default case
PollSwitchAcceptedEnds(s, r) ==
    IF r.status = StatusAccepted /\ r.location = ""
    THEN Finished(s, "unexpected status while polling: " \o ToString(r.status), "")
    ELSE pollSwitch(s, r)

\* a 303 without Location taken for a still-working signal
PollSwitchSeeOtherWaits(s, r) ==
    IF r.status = StatusSeeOther /\ r.location = ""
    THEN [s EXCEPT !.pc = "poll_sleep", !.wake = now + PollInterval]
    ELSE pollSwitch(s, r)

\* the Location of a 202 ignored: the poller always waits on 202
PollSwitchAcceptedWaits(s, r) ==
    IF r.status = StatusAccepted
    THEN pollSwitch(s, [r EXCEPT !.location = ""])
    ELSE pollSwitch(s, r)

\* the Location looked at before the status: a 500 with a Location succeeds
PollSwitchLocationFirst(s, r) ==
    IF r.status = StatusInternalServerError /\ r.location # ""
    THEN Finished(s, "ok", r.location)
    ELSE pollSwitch(s, r)

\* the switch as PollProvisioning runs it (client.go:304-347)
PollSwitch(s, r) == pollSwitch(s, r)

\* ----------------------------- transport.GetJSON and transport.DoJSON

\* the helpers of internal/transport
JSONOps == {"GetJSON", "DoJSON"}

\* the body closed only once it has been read
BodyCloseAfterRead(s, r) ==
    IF r.kind = "response"
    THEN [s EXCEPT !.res = TRUE, !.reads = @ + 1, !.drained = @ + 1,
                   !.closes = @ + 1, !.body = r.body]
    ELSE [s EXCEPT !.res = TRUE, !.reads = @ + 1]

\* Client.Body on the response r (client.go:271-274): io.ReadAll reads the
\* body, to its end unless the read fails, and the deferred Close closes it
\* either way
Body(s, r) ==
    [s EXCEPT !.res = TRUE, !.reads = @ + 1, !.closes = @ + 1,
              !.drained = IF r.kind = "response" THEN @ + 1 ELSE @,
              !.body = IF r.kind = "response" THEN r.body ELSE ""]

\* ExpectStatus (transport.go:139-145): "" for no error
ExpectStatus(status, body, allowedStatus) ==
    IF status \in allowedStatus
    THEN ""
    ELSE "unexpected status " \o ToString(status) \o ": " \o body

\* json.Unmarshal(body, out) on the value out points to: a body that is
\* not JSON is refused before anything is stored, and null stores nothing
Unmarshal(body, outVal) ==
    IF ~Decodes(body)
    THEN [err |-> "invalid character", outVal |-> outVal]
    ELSE [err |-> "", outVal |-> IF body = "null" THEN outVal ELSE body]

\* the body unmarshalled before the status is looked at
jsonTailUnmarshalFirst(s, r) ==
    LET u == IF s.out THEN Unmarshal(s.body, s.outVal)
                      ELSE [err |-> "", outVal |-> s.outVal]
        t == [s EXCEPT !.outVal = u.outVal]
        err == IF s.allowed # {} THEN ExpectStatus(r.status, t.body, s.allowed) ELSE ""
    IN  IF u.err # ""
        THEN Finished(t, u.err, "")
        ELSE IF err # ""
        THEN Finished(t, err, "")
        ELSE Finished(t, "ok", "")

\* GetJSON and DoJSON once the body was read (transport.go:78-90,
\* 123-135): the status is checked if allowedStatus is given, then the
\* body is unmarshalled if out is given
jsonTail(s, r) ==
    LET err == IF s.allowed # {} THEN ExpectStatus(r.status, s.body, s.allowed) ELSE ""
        u == IF s.out THEN Unmarshal(s.body, s.outVal)
                      ELSE [err |-> "", outVal |-> s.outVal]
    IN  IF err # ""
        THEN Finished(s, err, "")
        ELSE IF u.err # ""
        THEN Finished(s, u.err, "")
        ELSE Finished([s EXCEPT !.outVal = u.outVal], "ok", "")

\* the marshal error ignored
DoJSONEntrySendsAnyway(op, in, out, allowedStatus, validURL) ==
    LET s == [Idle EXCEPT !.op = op, !.in = in, !.out = out, !.allowed = allowedStatus]
    IN  IF ~validURL
        THEN Finished(s, "invalid base url", "")
        ELSE EnterDo(s)

\* GetJSON and DoJSON up to the call of Do (transport.go:68, 96-113):
\* DoJSON marshals a non-nil in, the request is built (client.go:194-222),
\* and Do is entered with no Authorization header set
DoJSONEntry(op, in, out, allowedStatus, validURL) ==
    LET s == [Idle EXCEPT !.op = op, !.in = in, !.out = out, !.allowed = allowedStatus]
    IN  IF in = "unmarshalable"
        THEN Finished(s, "json: unsupported type", "")
        ELSE IF ~validURL
        THEN Finished(s, "invalid base url", "")
        ELSE EnterDo(s)

\* what a caller may pass as in: nil, a value json.Marshal encodes, or one
\* it refuses (a channel, a function); GetJSON has no such parameter
Ins(op) == IF op = "DoJSON" THEN {"nil", "value", "unmarshalable"} ELSE {"nil"}

\* the allowedStatus lists callers pass: none, or the one status they expect
AllowedStatuses == {{}, {StatusOK}}

\* a service calls GetJSON or DoJSON
JSONStart(c, op, in, out, allowedStatus, validURL) ==
    /\ g[c].pc = "idle"
    /\ LET s == DoJSONEntry(op, in, out, allowedStatus, validURL)
       IN  IF s.pc = "done"
           THEN /\ \A d \in Callers : d < c => g[d].pc # "idle"
                /\ Step(c, s)
           ELSE Start(c, s)
    /\ UNCHANGED <<clientVars, muVars, now, signInCalls, histVars>>

\* ------------------------------------------- the pi and vps services

\* identifiers a caller may pass: empty, blank, and a server's
Identifiers == {"", " ", "my-id"}
\* strings.TrimSpace on them
TrimSpace(str) == IF str = " " THEN "" ELSE str
\* ErrEmptyIdentifier (pi/errors.go:10, vps/errors.go:10)
ErrEmptyIdentifier == "identifier is required"

\* truncateBody (client.go:261-267)
truncateBody(b) ==
    IF Len(b) <= BodyMax THEN b ELSE SubSeq(b, 1, BodyMax) \o "..."

\* the statuses a DELETE is answered with
DeleteStatuses == {StatusNoContent, StatusOK, StatusAccepted, StatusNotFound,
                   StatusInternalServerError}
\* what the transport may give a DELETE
DeleteResponses ==
    {[kind |-> "transport", status |-> 0, location |-> "", body |-> ""],
     [kind |-> "body unreadable", status |-> StatusOK, location |-> "", body |-> ""]}
    \cup [kind : {"response"}, status : DeleteStatuses, location : {""},
          body : Bodies]

\* 404 taken for a failure
deleteTailNotFoundFails(s, r) ==
    LET t == [s EXCEPT !.status = r.status]
    IN  IF r.status \in {StatusNoContent, StatusOK, StatusAccepted}
        THEN Finished(t, "ok", "")
        ELSE Finished(t, "unexpected status " \o ToString(r.status) \o ": "
                             \o truncateBody(t.body), "")

\* Client.Delete once the body was read (client.go:251-257)
deleteTail(s, r) ==
    LET t == [s EXCEPT !.status = r.status]
    IN  IF r.status \in {StatusNoContent, StatusOK, StatusAccepted, StatusNotFound}
        THEN Finished(t, "ok", "")
        ELSE Finished(t, "unexpected status " \o ToString(r.status) \o ": "
                             \o truncateBody(t.body), "")

\* the operations of pi.Service and vps.Service on one server, and
\* pi.Service.GetOperatingSystems: the helper each one calls, whether it
\* checks the identifier first, and what it passes as in, out and
\* allowedStatus.  UpdateSSHKey is given a key and SetPower a valid action.
Services ==
    [name : {"pi.Get"}, helper : {"GetJSON"}, checksIdentifier : {TRUE},
     in : {"nil"}, out : {TRUE}, allowed : {{}}]
    \cup [name : {"pi.GetOperatingSystems"}, helper : {"GetJSON"},
          checksIdentifier : {FALSE}, in : {"nil"}, out : {TRUE}, allowed : {{}}]
    \cup [name : {"pi.UpdateSSHKey", "vps.Update", "vps.SetPower"},
          helper : {"DoJSON"}, checksIdentifier : {TRUE},
          in : {"value"}, out : {TRUE}, allowed : {{StatusOK}}]
    \cup [name : {"vps.Reboot"}, helper : {"DoJSON"}, checksIdentifier : {TRUE},
          in : {"nil"}, out : {TRUE}, allowed : {{StatusOK}}]
    \cup [name : {"vps.Get"}, helper : {"GetJSON"}, checksIdentifier : {TRUE},
          in : {"nil"}, out : {TRUE}, allowed : {{StatusOK}}]
    \cup [name : {"pi.Delete", "vps.Delete"}, helper : {"Delete"},
          checksIdentifier : {TRUE}, in : {"nil"}, out : {FALSE}, allowed : {{}}]
    \cup [name : {"pi.Create", "vps.Create"}, helper : {"Create"},
          checksIdentifier : {FALSE}, in : {"value"}, out : {TRUE}, allowed : {{}}]

\* a service operation up to the call of Do: the identifier check where
\* there is one, then the helper with the service's base URL, which is
\* valid (pi.go:38, 47)
ServiceEntry(svc, identifier) ==
    LET s == [Idle EXCEPT !.op = svc.helper, !.svc = svc.name,
                          !.identifier = identifier, !.in = svc.in,
                          !.out = svc.out, !.allowed = svc.allowed,
                          !.phase = IF svc.helper = "Create" THEN "post" ELSE ""]
    IN  IF svc.checksIdentifier /\ TrimSpace(identifier) = ""
        THEN Finished(s, ErrEmptyIdentifier, "")
        ELSE EnterDo(s)

\* a caller calls a service operation
ServiceStart(c, svc, identifier) ==
    /\ g[c].pc = "idle"
    /\ LET s == ServiceEntry(svc, identifier)
       IN  IF s.pc = "done"
           THEN /\ \A d \in Callers : d < c => g[d].pc # "idle"
                /\ Step(c, s)
           ELSE Start(c, s)
    /\ UNCHANGED <<clientVars, muVars, now, signInCalls, histVars>>

\* a caller calls RebootWithGrace or ShutdownWithGrace, which call Reboot
\* and SetPower with PowerActionShutdown (part_000:285, 320)
GraceStart(c, svc, identifier, gracePeriod) ==
    /\ g[c].pc = "idle"
    /\ svc.name \in {"vps.Reboot", "vps.SetPower"}
    /\ LET s == ServiceEntry(svc, identifier)
       IN  IF s.pc = "done"
           THEN /\ \A d \in Callers : d < c => g[d].pc # "idle"
                /\ Step(c, [s EXCEPT !.phase = "request"])
           ELSE Start(c, [s EXCEPT !.phase = "request", !.gracePeriod = gracePeriod])
    /\ UNCHANGED <<clientVars, muVars, now, signInCalls, histVars>>

\* the caller cancels the context of a running RebootWithGrace or
\* ShutdownWithGrace; a select that waits, its timer not fired, is decided
\* by that: it takes <-ctx.Done() (part_000:344-345)
GraceCancel(c) ==
    /\ g[c].phase \in {"request", "wait"}
    /\ ~g[c].ctxDone
    /\ Step(c, [g[c] EXCEPT !.ctxDone = TRUE,
                             !.pc = IF @ = "grace_select" /\ now < g[c].wake
                                    THEN "grace_ctx" ELSE @])
    /\ UNCHANGED <<clientVars, muVars, now, signInCalls, histVars>>

\* the select of waitWithDefaultGrace returns (part_000:343-348):
\* ctx.Err() if it took <-ctx.Done(), and the caller returns a zero
\* response with it; nil once the timer has fired, and the caller returns
\* the response of its request
GraceSelect(c) ==
    /\ g[c].pc \in {"grace_ctx", "grace_select"}
    /\ g[c].pc = "grace_select" => now >= g[c].wake
    /\ Step(c, IF g[c].pc = "grace_ctx"
                THEN Finished([g[c] EXCEPT !.outVal = "untouched"], CtxErr, "")
                ELSE Finished(g[c], "ok", ""))
    /\ UNCHANGED <<clientVars, muVars, now, signInCalls, histVars>>

\* time passes while a call waits for its timer, up to the timer firing
TickWaiting ==
    /\ \E c \in Callers : g[c].pc = "grace_select" /\ now < g[c].wake
    /\ now' = now + 1
    /\ UNCHANGED <<clientVars, muVars, signInCalls, histVars, returned, g>>

\* 5*time.Minute, the timeout Create gives PollProvisioning (pi.go:216,
\* vps.go:177), on the model's clock
CreateTimeout == MaxTimeout

\* the statuses a POST of Create is answered with
PostStatuses == {StatusAccepted, StatusConflict, StatusOK, StatusInternalServerError}
\* what the transport may give the POST of Create
PostResponses ==
    {[kind |-> "transport", status |-> 0, location |-> "", body |-> ""]}
    \cup [kind : {"body unreadable"}, status : {StatusAccepted, StatusConflict},
          location : {""}, body : {""}]
    \cup [kind : {"response"}, status : PostStatuses, location : Locations,
          body : {"boom", "running"}]

\* ErrIdentifierConflict.Error (pi/errors.go:18-20)
ErrIdentifierConflict(identifier) == "identifier \"" \o identifier \o "\" already in use"

\* polling started whatever the POST was answered
createPostedPollsAnyway(s, r) ==
    [s EXCEPT !.status = r.status, !.location = r.location,
              !.op = "poll", !.phase = "poll", !.pc = "poll_top",
              !.deadline = now + CreateTimeout, !.polls = 0, !.checks = 0,
              !.body = "", !.auth = "", !.bearer = NoToken]

\* Create once the body of the POST's answer was read (pi.go:195-219,
\* vps.go:155-180): the status is looked at, then the Location header,
\* and PollProvisioning is called with a new request for it
createPosted(s, r) ==
    LET t == [s EXCEPT !.status = r.status, !.location = r.location]
    IN  IF r.status = StatusConflict
        THEN Finished(t, ErrIdentifierConflict(t.identifier), "")
        ELSE IF r.status # StatusAccepted
        THEN Finished(t, "unexpected status " \o ToString(r.status) \o ": " \o t.body, "")
        ELSE IF r.location = ""
        THEN Finished(t, "missing header location for polling", "")
        ELSE [t EXCEPT !.op = "poll", !.phase = "poll", !.pc = "poll_top",
                       !.deadline = now + CreateTimeout, !.polls = 0, !.checks = 0,
                       !.body = "", !.auth = "", !.bearer = NoToken]

\* Create once the body of the fetched server was read (pi.go:231-239,
\* vps.go:192-202)
createFetched(s, r) ==
    LET u == Unmarshal(s.body, s.outVal)
    IN  IF r.status # StatusOK
        THEN Finished(s, "failed to fetch server info: " \o s.body, "")
        ELSE IF u.err # ""
        THEN Finished(s, u.err, "")
        ELSE Finished([s EXCEPT !.outVal = u.outVal], "ok", "")

\* where Create goes on the transport's answer to its POST and to its
\* fetch (pi.go:185-193, 221-229)
createAnswered(s, r) ==
    IF s.phase = "post"
    THEN IF r.kind = "body unreadable"
         THEN Finished([Body(s, r) EXCEPT !.status = r.status],
                       "unexpected status " \o ToString(r.status), "")
         ELSE createPosted(Body(s, r), r)
    ELSE IF r.kind = "body unreadable"
    THEN Finished(Body(s, r), "unexpected status ", "")
    ELSE createFetched(Body(s, r), r)

\* where the call s, waiting in Do, goes on the transport's answer r: Do
\* returns it (client.go:111-116); the poller reads the body and switches
\* on the status (client.go:295-347), GetJSON and DoJSON read the body and
\* go on to status and decoding (transport.go:73-76, 118-121), Delete
\* reads the body and switches on the status (client.go:246-257)
Answered(s, r) ==
    IF r.kind = "transport"
    THEN DoFail(s, "transport")
    ELSE IF s.op = "do"
    THEN Finished(s, "ok", "")
    ELSE IF s.op \in JSONOps
    THEN IF r.kind = "body unreadable"
         THEN Finished(Body(s, r), "body unreadable", "")
         ELSE jsonTail(Body(s, r), r)
    ELSE IF s.op = "Delete"
    THEN IF r.kind = "body unreadable"
         THEN Finished(Body(s, r), "body unreadable", "")
         ELSE deleteTail(Body(s, r), r)
    ELSE IF s.op = "Create"
    THEN createAnswered(s, r)
    ELSE IF r.kind = "body unreadable"
    THEN Finished(s, "body unreadable", "")
    ELSE PollSwitch(s, r)

\* the transport answers the request of call c
DoRecv(c, r) ==
    /\ g[c].pc = "await"
    /\ g[c].op = "do" => r \in DoResponses
    /\ g[c].op \in JSONOps => r \in JSONResponses
    /\ g[c].op = "poll" => r \in Responses
    /\ g[c].op = "Delete" => r \in DeleteResponses
    /\ (g[c].op = "Create" /\ g[c].phase = "post") => r \in PostResponses
    /\ (g[c].op = "Create" /\ g[c].phase = "fetch") => r \in JSONResponses
    /\ Step(c, Answered(g[c], r))
    /\ UNCHANGED <<clientVars, muVars, now, signInCalls, histVars>>

\* PollProvisioning up to the loop (client.go:279-285)
PollStart(c, timeout, validURL) ==
    /\ g[c].pc = "idle"
    /\ IF validURL
       THEN Start(c, [Idle EXCEPT !.op = "poll", !.pc = "poll_top",
                                  !.deadline = now + timeout])
       ELSE /\ \A d \in Callers : d < c => g[d].pc # "idle"
            /\ Step(c, Finished([Idle EXCEPT !.op = "poll"], "invalid base url", ""))
    /\ UNCHANGED <<clientVars, muVars, now, signInCalls, histVars>>

\* the deadline never looked at
PollTopNoDeadline(c) ==
    /\ g[c].pc = "poll_top"
    /\ LET s == g[c]
       IN  Step(c, IF s.ctxDone
                   THEN Finished(s, CtxErr, "")
                   ELSE EnterDo(s))
    /\ UNCHANGED <<clientVars, muVars, now, signInCalls, histVars>>

\* the deadline looked at before the context
PollTopDeadlineFirst(c) ==
    /\ g[c].pc = "poll_top"
    /\ LET s == g[c]
       IN  Step(c, IF now > s.deadline
                   THEN Finished(s, "timed out while provisioning", "")
                   ELSE IF s.ctxDone
                   THEN Finished(s, CtxErr, "")
                   ELSE EnterDo(s))
    /\ UNCHANGED <<clientVars, muVars, now, signInCalls, histVars>>

\* the head of the loop and the call of Do with the one request built
\* before the loop (client.go:287-295)
PollTop(c) ==
    /\ g[c].pc = "poll_top"
    /\ LET s == g[c]
       IN  Step(c, IF s.ctxDone
                   THEN Finished(s, CtxErr, "")
                   ELSE IF now > s.deadline
                   THEN Finished(s, "timed out while provisioning", "")
                   ELSE EnterDo(s))
    /\ UNCHANGED <<clientVars, muVars, now, signInCalls, histVars>>

\* select: <-ctx.Done() (client.go:319-320, 340-341)
PollSleepCancelled(c) ==
    /\ g[c].pc = "poll_sleep"
    /\ g[c].ctxDone
    /\ Step(c, Finished(g[c], CtxErr, ""))
    /\ UNCHANGED <<clientVars, muVars, now, signInCalls, histVars>>

\* select: <-time.After(c.PollInterval) (client.go:321-322, 342-343)
PollWake(c) ==
    /\ g[c].pc = "poll_sleep"
    /\ now >= g[c].wake
    /\ Step(c, [g[c] EXCEPT !.pc = "poll_top", !.wake = 0])
    /\ UNCHANGED <<clientVars, muVars, now, signInCalls, histVars>>

\* ------------------------------------------------ Client.Pi

\* a goroutine calls the accessor Pi (part_009:41-49); VPS and Proxy
\* are the same on their own fields
PiStart(c) ==
    /\ Start(c, [Idle EXCEPT !.op = "Pi", !.pc = "svc_check"])
    /\ UNCHANGED <<clientVars, muVars, now, signInCalls, histVars>>

\* if c.piService == nil (part_009:45)
PiCheck(c) ==
    /\ g[c].pc = "svc_check"
    /\ Step(c, [g[c] EXCEPT !.pc = IF piService = NoCaller THEN "svc_store"
                                                             ELSE "svc_return"])
    /\ UNCHANGED <<clientVars, muVars, now, signInCalls, histVars>>

\* c.piService = pi.NewService(c) (part_009:46)
PiStore(c) ==
    /\ g[c].pc = "svc_store"
    /\ piService' = c
    /\ Step(c, [g[c] EXCEPT !.pc = "svc_return"])
    /\ UNCHANGED <<Token, tokenExpiresIn, tokenLastUsedAt, KeyID, Secret, muVars, now,
                   signInCalls, histVars>>

\* return c.piService (part_009:48): the field is read once more; the
\* Service returned is kept where a service operation keeps a status
PiReturn(c) ==
    /\ g[c].pc = "svc_return"
    /\ Step(c, Finished([g[c] EXCEPT !.status = piService], "ok", ""))
    /\ UNCHANGED <<clientVars, muVars, now, signInCalls, histVars>>

PiStep(c) ==
    \/ PiCheck(c)
    \/ PiStore(c)
    \/ PiReturn(c)

\* ------------------------------------------------------ environment

\* the caller cancels the context of a running PollProvisioning
Cancel(c) ==
    /\ g[c].op = "poll"
    /\ g[c].pc # "done"
    /\ ~g[c].ctxDone
    /\ Step(c, [g[c] EXCEPT !.ctxDone = TRUE])
    /\ UNCHANGED <<clientVars, muVars, now, signInCalls, histVars>>

Tick ==
    /\ now < MaxTime
    /\ now' = now + 1
    /\ UNCHANGED <<clientVars, muVars, signInCalls, histVars, returned, g>>

\* the steps of one Do call, its token handling included
DoStep(c) ==
    \/ EnsureRLock(c)
    \/ EnsureRUnlock(c)
    \/ EnsureLock(c)
    \/ SignInSend(c)
    \/ \E r \in AuthResponses : SignInRecv(c, r)
    \/ InstallToken(c)
    \/ InstallExpiresIn(c)
    \/ InstallLastUsedAt(c)
    \/ EnsureUnlock(c)
    \/ MarkLock(c)
    \/ MarkWrite(c)
    \/ DoSend(c)
    \/ \E r \in Responses \cup DeleteResponses \cup PostResponses : DoRecv(c, r)

\* goroutines sharing the client, each issuing requests through Do
Next ==
    \/ \E c \in Callers : DoStart(c, FALSE)
    \/ \E c \in Callers : DoStep(c)
    \/ Tick

Spec == Init /\ [][Next]_vars

\* one goroutine more shares the client, all of them starting without a
\* token and with credentials, as in TestDo_EnsureTokenConcurrentSingleSignIn
LockCallers == 1..(NumCallers + 1)

InitLock ==
    /\ KeyID = TRUE
    /\ Secret = TRUE
    /\ piService = NoCaller
    /\ Token = NoToken
    /\ tokenExpiresIn = 0
    /\ tokenLastUsedAt = ZeroTime
    /\ muWriter = NoCaller
    /\ muReaders = {}
    /\ now = 1
    /\ signInCalls = 0
    /\ signInFailed = FALSE
    /\ lifetimeDeclared = FALSE
    /\ declared = 0
    /\ stamped = FALSE
    /\ init0 = [Token |-> NoToken, tokenExpiresIn |-> 0, tokenLastUsedAt |-> ZeroTime]
    /\ probe = ""
    /\ returned = NoReturn
    /\ g = [c \in LockCallers |-> Idle]

\* the sign-in answers that differ for a caller waiting on the lock: a
\* failure, a token that never falls due, a token that is due once used
LockResponses ==
    {r \in AuthResponses :
        \/ r.kind = "transport"
        \/ r.status = StatusOK /\ r.token # NoToken /\ r.expiresIn <= Margin}

\* the steps of one Do call under those answers
LockStep(c) ==
    \/ EnsureRLock(c)
    \/ EnsureRUnlock(c)
    \/ EnsureLock(c)
    \/ SignInSend(c)
    \/ \E r \in LockResponses : SignInRecv(c, r)
    \/ InstallToken(c)
    \/ InstallExpiresIn(c)
    \/ InstallLastUsedAt(c)
    \/ EnsureUnlock(c)
    \/ MarkLock(c)
    \/ MarkWrite(c)
    \/ DoSend(c)
    \/ \E r \in DoResponses : DoRecv(c, r)

NextLock ==
    \/ \E c \in LockCallers : DoStart(c, FALSE)
    \/ \E c \in LockCallers : LockStep(c)

SpecLock == InitLock /\ [][NextLock]_vars

\* the same goroutines under a scheduler that does not halt while a
\* goroutine can run, every exchange with the auth endpoint and with the
\* API answered in the end
SpecFair == InitLock /\ [][NextLock]_vars /\ WF_vars(NextLock)

\* goroutines sharing the client, each issuing a request through Do or
\* asking for the Pi service
NextShared ==
    \/ \E c \in Callers : DoStart(c, FALSE)
    \/ \E c \in Callers : PiStart(c)
    \/ \E c \in Callers : DoStep(c)
    \/ \E c \in Callers : PiStep(c)
    \/ Tick

SpecShared == Init /\ [][NextShared]_vars

\* no call is running: the calls of SpecPoll are made one after another
Quiet == \A d \in Callers : g[d].pc \in {"idle", "done"}

PollStep(c) ==
    \/ PollTop(c)
    \/ PollSleepCancelled(c)
    \/ PollWake(c)
    \/ Cancel(c)

\* one goroutine calling Do, signIn and PollProvisioning, one call after
\* another
NextPoll ==
    \/ \E c \in Callers, preset \in BOOLEAN : Quiet /\ DoStart(c, preset)
    \/ \E c \in Callers : Quiet /\ SignInStart(c)
    \/ \E c \in Callers, timeout \in 0..MaxTimeout, validURL \in BOOLEAN :
          Quiet /\ PollStart(c, timeout, validURL)
    \/ \E c \in Callers : DoStep(c)
    \/ \E c \in Callers : PollStep(c)
    \/ Tick

SpecPoll == Init /\ [][NextPoll]_vars

\* one goroutine calling GetJSON and DoJSON, one call after another
NextJSON ==
    \/ \E c \in Callers, op \in JSONOps, out \in BOOLEAN,
          allowedStatus \in AllowedStatuses, validURL \in BOOLEAN :
          \E in \in Ins(op) : Quiet /\ JSONStart(c, op, in, out, allowedStatus, validURL)
    \/ \E c \in Callers : DoStep(c)
    \/ Tick

SpecJSON == Init /\ [][NextJSON]_vars

\* one goroutine calling the operations of the pi and vps services, one
\* call after another
NextService ==
    \/ \E c \in Callers, svc \in Services, identifier \in Identifiers :
          Quiet /\ svc.helper # "Create" /\ ServiceStart(c, svc, identifier)
    \/ \E c \in Callers : DoStep(c)
    \/ Tick

\* a client made with credentials, as NewClient leaves it (client.go:68-92)
InitService == Init /\ hasCreds /\ Token = NoToken

SpecService == InitService /\ [][NextService]_vars

\* one goroutine calling Create of the pi and vps services, one call
\* after another
NextCreate ==
    \/ \E c \in Callers, svc \in Services, identifier \in {"", "my-id"} :
          Quiet /\ svc.helper = "Create" /\ ServiceStart(c, svc, identifier)
    \/ \E c \in Callers : DoStep(c)
    \/ \E c \in Callers : PollStep(c)
    \/ Tick

SpecCreate == InitService /\ [][NextCreate]_vars

\* one goroutine calling RebootWithGrace and ShutdownWithGrace, one call
\* after another
NextGrace ==
    \/ \E c \in Callers, svc \in Services, identifier \in Identifiers,
          gracePeriod \in GracePeriods :
          Quiet /\ GraceStart(c, svc, identifier, gracePeriod)
    \/ \E c \in Callers : DoStep(c)
    \/ \E c \in Callers : GraceCancel(c)
    \/ \E c \in Callers : GraceSelect(c)
    \/ Tick
    \/ TickWaiting

SpecGrace == InitService /\ [][NextGrace]_vars

\* the still-working signals: 202 without Location, and 200 without
\* Location whose body decodes and whose predicate reports not done
StillWorking ==
    {r \in Responses :
        /\ r.kind = "response" /\ r.location = ""
        /\ \/ r.status = StatusAccepted
           \/ r.status = StatusOK /\ Decodes(r.body) /\ ~check(r.body)[2]}

\* the sign-in answers that carry a token
AuthTokens == {r \in AuthResponses : signInResult(r) = "" /\ r.token # NoToken}

\* time passes while a poller sleeps, up to the end of its sleep: the
\* steps of the program and the answers of the servers take no time
TickAsleep ==
    /\ \E c \in Callers : g[c].pc = "poll_sleep" /\ now < g[c].wake
    /\ now' = now + 1
    /\ UNCHANGED <<clientVars, muVars, signInCalls, histVars, returned, g>>

WorkingStep(c) ==
    \/ EnsureRLock(c)
    \/ EnsureRUnlock(c)
    \/ EnsureLock(c)
    \/ SignInSend(c)
    \/ \E r \in AuthTokens : SignInRecv(c, r)
    \/ InstallToken(c)
    \/ InstallExpiresIn(c)
    \/ InstallLastUsedAt(c)
    \/ EnsureUnlock(c)
    \/ MarkLock(c)
    \/ MarkWrite(c)
    \/ DoSend(c)
    \/ \E r \in StillWorking : DoRecv(c, r)
    \/ PollTop(c)
    \/ PollWake(c)

\* PollProvisioning calls, one after another, against a server that only
\* ever answers with still-working signals, the context never cancelled
NextWorking ==
    \/ \E c \in Callers, timeout \in 0..MaxTimeout : Quiet /\ PollStart(c, timeout, TRUE)
    \/ \E c \in Callers : WorkingStep(c)
    \/ TickAsleep

\* the goroutine runs and the clock advances
SpecWorking == Init /\ [][NextWorking]_vars /\ WF_vars(NextWorking)

\* tokenExpired applied to a lifetime, a last use and a clock of any value
InitExp ==
    /\ KeyID = TRUE
    /\ Secret = TRUE
    /\ piService = NoCaller
    /\ Token = PresetToken
    /\ tokenExpiresIn \in (0 - 1)..MaxLife
    /\ tokenLastUsedAt \in ZeroTime..MaxClock
    /\ now \in 1..MaxClock
    /\ now >= tokenLastUsedAt
    /\ muWriter = NoCaller
    /\ muReaders = {}
    /\ signInCalls = 0
    /\ signInFailed = FALSE
    /\ lifetimeDeclared = FALSE
    /\ declared = tokenExpiresIn
    /\ stamped = ~IsZero(tokenLastUsedAt)
    /\ init0 = [Token |-> Token, tokenExpiresIn |-> tokenExpiresIn,
                tokenLastUsedAt |-> tokenLastUsedAt]
    /\ probe = ""
    /\ returned = NoReturn
    /\ g = [c \in Callers |-> Idle]

ApplyTokenExpired ==
    /\ probe = ""
    /\ probe' = IF tokenExpired(tokenExpiresIn, tokenLastUsedAt) THEN "expired" ELSE "fresh"
    /\ UNCHANGED <<clientVars, muVars, now, signInCalls, signInFailed, lifetimeDeclared,
                   declared, stamped, init0, returned, g>>

NextExp == ApplyTokenExpired

SpecExp == InitExp /\ [][NextExp]_vars

\* ------------------------------------------- net/url and NewRequest
\* A URL string is the sequence of its pieces: the delimiters ":", "/",
\* "?" and "#", and the runs of other characters between them.  A parsed
\* URL is a url.URL with its paths, queries and fragments kept as such
\* sequences.

\* the first and the last position of the delimiter d in str, 0 if none
Index(str, d) ==
    IF \E i \in 1..Len(str) : str[i] = d
    THEN CHOOSE i \in 1..Len(str) : str[i] = d /\ \A j \in 1..(i - 1) : str[j] # d
    ELSE 0
LastIndex(str, d) ==
    IF \E i \in 1..Len(str) : str[i] = d
    THEN CHOOSE i \in 1..Len(str) : str[i] = d /\ \A j \in (i + 1)..Len(str) : str[j] # d
    ELSE 0
HasPrefix(str, d) == Len(str) >= 1 /\ str[1] = d
HasSuffix(str, d) == Len(str) >= 1 /\ str[Len(str)] = d
TrimPrefix(str, d) == IF HasPrefix(str, d) THEN Tail(str) ELSE str

\* the pieces getScheme takes for a scheme: a letter, then letters,
\* digits, "+", "-" and "."
SchemeLike == {"https", "HTTPS", "mailto"}
\* strings.ToLower on them
ToLower(piece) == IF piece = "HTTPS" THEN "https" ELSE piece
\* the pieces parseHost refuses in a host: those with a space
BadHost == {" bad base"}

\* the zero url.URL
NoURL == [err |-> "", Scheme |-> "", Opaque |-> <<>>, Host |-> <<>>, Path |-> <<>>,
          RawQuery |-> <<>>, Fragment |-> <<>>, OmitHost |-> FALSE,
          ForceQuery |-> FALSE]

\* url.Parse: the fragment is cut off, the scheme taken and lower-cased,
\* the query cut off, a rootless rest after a scheme kept opaque, the
\* authority after "//" taken for the host, and what is left is the path
Parse(rawURL) ==
    LET h == Index(rawURL, "#")
        u == IF h = 0 THEN rawURL ELSE SubSeq(rawURL, 1, h - 1)
        frag == IF h = 0 THEN <<>> ELSE SubSeq(rawURL, h + 1, Len(rawURL))
        hasScheme == Len(u) >= 2 /\ u[1] \in SchemeLike /\ u[2] = ":"
        scheme == IF hasScheme THEN ToLower(u[1]) ELSE ""
        rest0 == IF hasScheme THEN SubSeq(u, 3, Len(u)) ELSE u
        q == Index(rest0, "?")
        rest == IF q = 0 THEN rest0 ELSE SubSeq(rest0, 1, q - 1)
        query == IF q = 0 THEN <<>> ELSE SubSeq(rest0, q + 1, Len(rest0))
        slash == Index(rest, "/")
        colon == Index(rest, ":")
        hasAuthority == /\ Len(rest) >= 2 /\ rest[1] = "/" /\ rest[2] = "/"
                        /\ scheme # "" \/ ~(Len(rest) >= 3 /\ rest[3] = "/")
        afterSlashes == SubSeq(rest, 3, Len(rest))
        a == Index(afterSlashes, "/")
        authority == IF a = 0 THEN afterSlashes ELSE SubSeq(afterSlashes, 1, a - 1)
        parsed == [NoURL EXCEPT !.Scheme = scheme, !.RawQuery = query,
                                !.Fragment = frag,
                                !.ForceQuery = (q # 0 /\ q = Len(rest0))]
    IN  IF HasPrefix(u, ":")
        THEN [NoURL EXCEPT !.err = "missing protocol scheme"]
        ELSE IF ~HasPrefix(rest, "/") /\ scheme # ""
        THEN [parsed EXCEPT !.Opaque = rest]
        ELSE IF ~HasPrefix(rest, "/") /\ colon # 0 /\ (slash = 0 \/ colon < slash)
        THEN [NoURL EXCEPT !.err = "first path segment in URL cannot contain colon"]
        ELSE IF hasAuthority
        THEN IF \E i \in 1..Len(authority) : authority[i] \in BadHost
             THEN [NoURL EXCEPT !.err = "invalid character in host name"]
             ELSE [parsed EXCEPT !.Host = authority,
                                 !.Path = IF a = 0 THEN <<>>
                                          ELSE SubSeq(afterSlashes, a, Len(afterSlashes))]
        ELSE [parsed EXCEPT !.Path = rest,
                            !.OmitHost = (scheme # "" /\ HasPrefix(rest, "/"))]

\* URL.String
String(u) ==
    LET scheme == IF u.Scheme # "" THEN <<u.Scheme, ":">> ELSE <<>>
        host == IF /\ u.Scheme # "" \/ u.Host # <<>>
                   /\ ~(u.OmitHost /\ u.Host = <<>>)
                   /\ u.Host # <<>> \/ u.Path # <<>>
                THEN <<"/", "/">> \o u.Host
                ELSE IF (u.Scheme # "" \/ u.Host # <<>>) /\ ~(u.OmitHost /\ u.Host = <<>>)
                THEN u.Host
                ELSE <<>>
        sep == IF u.Path # <<>> /\ ~HasPrefix(u.Path, "/") /\ u.Host # <<>>
               THEN <<"/">> ELSE <<>>
        slash == Index(u.Path, "/")
        colon == Index(u.Path, ":")
        dot == IF scheme \o host \o sep = <<>> /\ colon # 0 /\ (slash = 0 \/ colon < slash)
               THEN <<".", "/">> ELSE <<>>
    IN  scheme
        \o (IF u.Opaque # <<>> THEN u.Opaque ELSE host \o sep \o dot \o u.Path)
        \o (IF u.ForceQuery \/ u.RawQuery # <<>> THEN <<"?">> \o u.RawQuery ELSE <<>>)
        \o (IF u.Fragment # <<>> THEN <<"#">> \o u.Fragment ELSE <<>>)

\* URL.IsAbs
IsAbs(u) == u.Scheme # ""

\* strings.Cut on "/", repeated: the elements of a path
RECURSIVE Elements(_)
Elements(path) ==
    LET i == Index(path, "/")
    IN  IF i = 0
        THEN <<path>>
        ELSE <<SubSeq(path, 1, i - 1)>> \o Elements(SubSeq(path, i + 1, Len(path)))

\* the loop of resolvePath: "." is dropped and ".." drops what dst ends
\* with, back to its leading "/"
RECURSIVE RemoveDots(_, _, _)
RemoveDots(elems, dst, first) ==
    IF elems = <<>>
    THEN dst
    ELSE LET elem == Head(elems)
             str == Tail(dst)
             index == LastIndex(str, "/")
         IN  IF elem = <<".">>
             THEN RemoveDots(Tail(elems), dst, FALSE)
             ELSE IF elem = <<"..">>
             THEN IF index = 0
                  THEN RemoveDots(Tail(elems), <<"/">>, TRUE)
                  ELSE RemoveDots(Tail(elems), <<"/">> \o SubSeq(str, 1, index - 1), first)
             ELSE RemoveDots(Tail(elems),
                             dst \o (IF first THEN <<>> ELSE <<"/">>) \o elem, FALSE)

\* resolvePath(base, ref) of net/url
resolvePath(base, ref) ==
    LET full == IF ref = <<>>
                THEN base
                ELSE IF ~HasPrefix(ref, "/")
                THEN SubSeq(base, 1, LastIndex(base, "/")) \o ref
                ELSE ref
        elems == Elements(full)
        last == elems[Len(elems)]
        dst == RemoveDots(elems, <<"/">>, TRUE)
        r == IF last \in {<<".">>, <<"..">>} THEN dst \o <<"/">> ELSE dst
    IN  IF full = <<>>
        THEN <<>>
        ELSE IF Len(r) > 1 /\ r[2] = "/" THEN Tail(r) ELSE r

\* URL.ResolveReference on a reference that has neither scheme nor host
\* nor opaque part, by a base that has a host
ResolveReference(u, ref) ==
    LET bare == ref.Path = <<>> /\ ~ref.ForceQuery /\ ref.RawQuery = <<>>
    IN  [ref EXCEPT !.Scheme = u.Scheme,
                    !.Host = u.Host,
                    !.RawQuery = IF bare THEN u.RawQuery ELSE @,
                    !.Fragment = IF bare /\ ref.Fragment = <<>> THEN u.Fragment ELSE @,
                    !.Path = resolvePath(u.Path, ref.Path)]

\* an *http.Request and an error, one of them nil
NoRequest(err) == [done |-> TRUE, err |-> err, url |-> <<>>]

\* http.NewRequestWithContext parses the URL it is given
NewRequestWithContext(urlStr) ==
    LET u == Parse(urlStr)
    IN  IF u.err # "" THEN NoRequest(u.err)
        ELSE [done |-> TRUE, err |-> "", url |-> String(u)]

\* an endpoint taken for absolute only if it has a host as well
IsAbsWithHost(u) == u.Scheme # "" /\ u.Host # <<>>

\* absolute, as NewRequest asks it of the endpoint (client.go:200)
endpointIsAbs(u) == IsAbs(u)

\* "/" appended to every base path
withTrailingSlashAlways(path) == path \o <<"/">>

\* the base path made to end with "/" (client.go:209-211)
withTrailingSlash(path) == IF HasSuffix(path, "/") THEN path ELSE path \o <<"/">>

\* a base taken for valid once it parses
invalidBaseParseOnly(base) == base.err # ""

\* the test NewRequest makes of the parsed base URL (client.go:205)
invalidBase(base) == base.err # "" \/ base.Scheme = "" \/ base.Host = <<>>

\* Client.NewRequest (client.go:194-222)
NewRequest(baseURL, endpoint) ==
    LET parsedURL == Parse(endpoint)
        base == Parse(baseURL)
        rel == [NoURL EXCEPT !.Path = TrimPrefix(parsedURL.Path, "/"),
                             !.RawQuery = parsedURL.RawQuery,
                             !.Fragment = parsedURL.Fragment]
        full == ResolveReference([base EXCEPT !.Path = withTrailingSlash(@)], rel)
    IN  IF parsedURL.err # ""
        THEN NoRequest(parsedURL.err)
        ELSE IF endpointIsAbs(parsedURL)
        THEN NewRequestWithContext(String(parsedURL))
        ELSE IF invalidBase(base)
        THEN NoRequest("invalid base url")
        ELSE NewRequestWithContext(String(full))

\* base URLs: with a path, with a path ending in "/", without a path,
\* with a query; and the ones NewRequest refuses: unparsable, without
\* scheme, without host, empty
BaseURLs ==
    {<<"https", ":", "/", "/", "example.com", "/", "base">>,
     <<"https", ":", "/", "/", "example.com", "/", "base", "/">>,
     <<"https", ":", "/", "/", "example.com">>,
     <<"https", ":", "/", "/", "example.com", "/", "base", "?", "k=v">>,
     <<":", "/", "/", " bad base">>,
     <<"example.com", "/", "base">>,
     <<"https", ":", "/", "base">>,
     <<>>}

\* endpoints: paths with and without leading "/", with query and
\* fragment, with dot segments, empty; URLs with scheme and host, with an
\* upper-case scheme, with an empty fragment, with a scheme and no host,
\* with a host and no scheme; and strings url.Parse refuses
Endpoints ==
    {<<"/", "vps", "/", "disk-sizes">>,
     <<"vps">>,
     <<"/", "vps", "?", "q=1", "#", "frag">>,
     <<"?", "q=1">>,
     <<>>,
     <<"..", "/", "admin">>,
     <<"vps", "/", ".", "/", "x">>,
     <<"https", ":", "/", "/", "api.example.com", "/", "x">>,
     <<"https", ":", "/", "/", "api.example.com", "/", "x", "?", "q=1", "#", "frag">>,
     <<"HTTPS", ":", "/", "/", "api.example.com", "/", "x">>,
     <<"https", ":", "/", "/", "api.example.com", "/", "x", "#">>,
     <<"https", ":", "/", "vps">>,
     <<"mailto", ":", "x">>,
     <<"/", "/", "api.example.com", "/", "x">>,
     <<":", "/", "/", " bad base">>,
     <<"https", ":", "/", "/", " bad base", "/", "x">>,
     <<"q=1", ":", "x">>}

\* a base URL and an endpoint, NewRequest not yet called
InitURL ==
    /\ KeyID = TRUE
    /\ Secret = TRUE
    /\ piService = NoCaller
    /\ Token = NoToken
    /\ tokenExpiresIn = 0
    /\ tokenLastUsedAt = ZeroTime
    /\ muWriter = NoCaller
    /\ muReaders = {}
    /\ now = 1
    /\ signInCalls = 0
    /\ signInFailed = FALSE
    /\ lifetimeDeclared = FALSE
    /\ declared = 0
    /\ stamped = FALSE
    /\ init0 = [Token |-> Token, tokenExpiresIn |-> tokenExpiresIn,
                tokenLastUsedAt |-> tokenLastUsedAt]
    /\ probe \in [baseURL : BaseURLs, endpoint : Endpoints,
                  request : {[done |-> FALSE, err |-> "", url |-> <<>>]}]
    /\ returned = NoReturn
    /\ g = [c \in Callers |-> Idle]

ApplyNewRequest ==
    /\ ~probe.request.done
    /\ probe' = [probe EXCEPT !.request = NewRequest(probe.baseURL, probe.endpoint)]
    /\ UNCHANGED <<clientVars, muVars, now, signInCalls, signInFailed, lifetimeDeclared,
                   declared, stamped, init0, returned, g>>

NextURL == ApplyNewRequest

SpecURL == InitURL /\ [][NextURL]_vars

\* ------------------------------------------------ vps.UpdateRequest
\* A *string is <<>> for nil and <<v>> for a pointer to v.

\* names and ISO images a caller may give: empty, a name, and the four
\* letters of null
Names == {"", "vm", "null"}

\* the fields with a plain setter, by their JSON keys (vps.go:228-236),
\* and the JSON text of the value the caller gives each
PlainFields ==
    [product |-> "\"VPS-2\"", specs |-> "{\"cores\":2}", boot_device |-> "\"cdrom\"",
     cpu_mode |-> "\"performance\"", net_device |-> "\"virtio\"",
     disk_bus |-> "\"virtio\"", tablet |-> "true"]

\* NewUpdateRequest (vps.go:250-252)
NewUpdateRequest ==
    [Name |-> <<>>, ISOImage |-> <<>>, clearName |-> FALSE, clearISOImage |-> FALSE,
     plain |-> [k \in DOMAIN PlainFields |-> <<>>]]

\* SetProduct, SetSpecs, SetBootDevice, SetCPUMode, SetNetDevice,
\* SetDiskBus, SetTablet (vps.go:255-273)
SetField(r, k) == [r EXCEPT !.plain[k] = <<PlainFields[k]>>]

\* the cleared mark left standing
SetNameKeepsClear(r, v) == [r EXCEPT !.Name = <<v>>]

\* vps.go:276-279
SetName(r, v) == [r EXCEPT !.Name = <<v>>, !.clearName = FALSE]
\* vps.go:282-285
ClearName(r) == [r EXCEPT !.Name = <<>>, !.clearName = TRUE]
\* vps.go:288-291
UnsetName(r) == [r EXCEPT !.Name = <<>>, !.clearName = FALSE]
\* vps.go:294-297
SetISOImage(r, v) == [r EXCEPT !.ISOImage = <<v>>, !.clearISOImage = FALSE]
\* vps.go:300-303
ClearISOImage(r) == [r EXCEPT !.ISOImage = <<>>, !.clearISOImage = TRUE]
\* vps.go:306-309
UnsetISOImage(r) == [r EXCEPT !.ISOImage = <<>>, !.clearISOImage = FALSE]

\* UpdateRequest.MarshalJSON (vps.go:312-352): the JSON object it encodes,
\* as the function from its keys to the JSON text of their values; a string
\* is encoded in quotes, nil as null
MarshalJSON(r) ==
    LET plain == {k \in DOMAIN PlainFields : r.plain[k] # <<>>}
        name == IF r.clearName \/ r.Name # <<>> THEN {"name"} ELSE {}
        iso == IF r.clearISOImage \/ r.ISOImage # <<>> THEN {"iso_image"} ELSE {}
    IN  [k \in plain \cup name \cup iso |->
            IF k = "name"
            THEN IF r.clearName THEN "null" ELSE "\"" \o r.Name[1] \o "\""
            ELSE IF k = "iso_image"
            THEN IF r.clearISOImage THEN "null" ELSE "\"" \o r.ISOImage[1] \o "\""
            ELSE r.plain[k][1]]

\* a caller holds a new UpdateRequest; of the calls on name and on iso_image
\* the last and the one before it are kept (history)
InitUpdate ==
    /\ KeyID = TRUE
    /\ Secret = TRUE
    /\ piService = NoCaller
    /\ Token = NoToken
    /\ tokenExpiresIn = 0
    /\ tokenLastUsedAt = ZeroTime
    /\ muWriter = NoCaller
    /\ muReaders = {}
    /\ now = 1
    /\ signInCalls = 0
    /\ signInFailed = FALSE
    /\ lifetimeDeclared = FALSE
    /\ declared = 0
    /\ stamped = FALSE
    /\ init0 = [Token |-> Token, tokenExpiresIn |-> tokenExpiresIn,
                tokenLastUsedAt |-> tokenLastUsedAt]
    /\ probe = [req |-> NewUpdateRequest,
                name |-> <<>>, nameBefore |-> <<>>, iso |-> <<>>, isoBefore |-> <<>>]
    /\ returned = NoReturn
    /\ g = [c \in Callers |-> Idle]

\* the caller makes the call (field, call, v) of the request, which
\* becomes r
UpdateCall(field, call, r) ==
    /\ probe' = [req |-> r,
                 name |-> IF field = "name" THEN call ELSE probe.name,
                 nameBefore |-> IF field = "name" THEN probe.name ELSE probe.nameBefore,
                 iso |-> IF field = "iso_image" THEN call ELSE probe.iso,
                 isoBefore |-> IF field = "iso_image" THEN probe.iso ELSE probe.isoBefore]
    /\ UNCHANGED <<clientVars, muVars, now, signInCalls, signInFailed, lifetimeDeclared,
                   declared, stamped, init0, returned, g>>

NextUpdate ==
    \/ \E k \in DOMAIN PlainFields : UpdateCall(k, <<>>, SetField(probe.req, k))
    \/ \E v \in Names : UpdateCall("name", <<"Set", v>>, SetName(probe.req, v))
    \/ UpdateCall("name", <<"Clear">>, ClearName(probe.req))
    \/ UpdateCall("name", <<"Unset">>, UnsetName(probe.req))
    \/ \E v \in Names : UpdateCall("iso_image", <<"Set", v>>, SetISOImage(probe.req, v))
    \/ UpdateCall("iso_image", <<"Clear">>, ClearISOImage(probe.req))
    \/ UpdateCall("iso_image", <<"Unset">>, UnsetISOImage(probe.req))

SpecUpdate == InitUpdate /\ [][NextUpdate]_vars

\* -------------------------------------------------------- properties

\* the token the auth endpoint issues first
FirstToken == PresetToken + 1

\* call c is inside Do, the request's Authorization header not set by
\* its caller
InDo(c) == g[c].pc \notin {"idle", "done"} /\ g[c].auth # "Basic"

\* call c is inside ensureToken, past the read under RLock
InEnsure(c) ==
    g[c].pc \in {"ensure_runlock", "ensure_lock", "signin", "signin_wait",
                 "install_token", "install_expires", "install_last", "ensure_unlock"}

\* every sign-in so far was answered with a token that declares no lifetime
NoLifetime == ~lifetimeDeclared

\* the sliding-TTL rule, as the specification words it
Due(lifetime, lastUsed, clock) ==
    /\ lifetime > 0
    /\ lastUsed # ZeroTime
    /\ clock - lastUsed >= Max(lifetime - Margin, 0)

\* C1 as stated: a client with credentials and no token, sign-in
\* succeeding: of the callers that found no token, none signs in once a
\* token is installed, the one that signs in makes the only sign-in
\* request, and all of them obtain the first token issued.
C1_SingleSignInAnyLifetime ==
    (hasCreds /\ init0.Token = NoToken /\ ~signInFailed) =>
        \A c \in Callers : InDo(c) =>
            /\ g[c].pc \in {"signin", "signin_wait"} => Token = NoToken
            /\ g[c].pc = "signin_wait" => signInCalls = 1
            /\ g[c].auth = "Bearer" => g[c].bearer = FirstToken

\* C1 (amended): on a client with credentials and no token, sign-in
\* succeeding with a token that declares no lifetime, at most one sign-in
\* request reaches the auth endpoint, whatever the number of concurrent
\* callers of Do, and every caller obtains that one token.
C1_SingleSignIn ==
    (hasCreds /\ init0.Token = NoToken /\ ~signInFailed /\ NoLifetime) =>
        /\ signInCalls <= 1
        /\ \A c \in Callers :
              /\ g[c].pc = "signin_wait" => signInCalls = 1
              /\ g[c].auth = "Bearer" => g[c].bearer = FirstToken

\* two callers found no token: the one that signed in has the first token
\* on its request and waits to mark it used, the other holds the lock and
\* leaves ensureToken with that token, no second sign-in made
C1_Witness ==
    /\ hasCreds /\ init0.Token = NoToken /\ ~signInFailed /\ NoLifetime
    /\ signInCalls = 1
    /\ \E c, d \in Callers :
          /\ c # d
          /\ g[c].pc = "ensure_unlock" /\ g[c].token = NoToken
          /\ g[c].err = "" /\ g[c].retToken = FirstToken
          /\ g[d].pc = "mark_lock" /\ g[d].bearer = FirstToken

\* C2 as stated: credentials configured and sign-in succeeding, a caller
\* that found the stored token due signs in only while that token is still
\* the stored one (never over a token another caller installed), whatever
\* lifetime the installed token declares, and leaves ensureToken with the
\* stored token.
C2_SingleRefreshAnyLifetime ==
    (hasCreds /\ ~signInFailed) =>
        \A c \in Callers : (InEnsure(c) /\ g[c].token # NoToken) =>
            /\ g[c].pc \in {"signin", "signin_wait"} => Token = g[c].token
            /\ (g[c].pc = "ensure_unlock" /\ g[c].err = "") => g[c].retToken = Token

\* C2 (amended): credentials configured and sign-in succeeding, a caller
\* that found the stored token due re-validates under the exclusive lock
\* and signs in over a token another caller installed only if that token
\* is itself due by the sliding-TTL rule (a declared lifetime of 10 s or
\* less makes it due as soon as it was used); otherwise it returns the
\* installed token without error.  When the installed token declares no
\* lifetime exactly one sign-in exchange occurs.
C2_SingleRefresh ==
    (hasCreds /\ ~signInFailed) =>
        /\ \A c \in Callers : (InEnsure(c) /\ g[c].token # NoToken) =>
              /\ (g[c].pc \in {"signin", "signin_wait"} /\ Token # g[c].token)
                    => Due(tokenExpiresIn, tokenLastUsedAt, now)
              /\ (g[c].pc = "ensure_unlock" /\ g[c].err = "") => g[c].retToken = Token
        /\ (init0.Token # NoToken /\ NoLifetime) => signInCalls <= 1

\* two callers found the preset token due; one signed in, installed the
\* first token and has its request out with it, the other holds the lock
\* and leaves ensureToken with that token, no second sign-in made
C2_Witness ==
    /\ hasCreds /\ ~signInFailed /\ NoLifetime /\ signInCalls = 1
    /\ \E c, d \in Callers :
          /\ c # d
          /\ g[c].pc = "ensure_unlock" /\ g[c].token = PresetToken
          /\ g[c].err = "" /\ g[c].retToken = FirstToken /\ Token = FirstToken
          /\ ~IsZero(tokenLastUsedAt)
          /\ g[d].pc = "await" /\ g[d].bearer = FirstToken

\* C3: at most one sign-in request of the client is in flight, whatever
\* the number of callers and the outcome of earlier sign-ins.
C3_OneSignInInFlight ==
    Cardinality({c \in Callers : g[c].pc = "signin_wait"}) <= 1

\* a sign-in is in flight while another caller
\* that needs a token waits for the lock
C3_Witness ==
    \E c, d \in Callers :
        /\ g[c].pc = "signin_wait"
        /\ g[d].pc = "ensure_lock"

C5_SlidingTTL ==
    probe # "" =>
        /\ (probe = "expired") <=> Due(tokenExpiresIn, tokenLastUsedAt, now)
        /\ IsZero(tokenLastUsedAt) => probe = "fresh"

\* lifetime 30 s, last use 25 s ago: due
C5_Witness ==
    /\ probe = "expired"
    /\ tokenExpiresIn = 30
    /\ ~IsZero(tokenLastUsedAt)
    /\ now - tokenLastUsedAt = 25

\* ensureToken's fast path (on the values read) or slow path (on the
\* stored values) hands caller c the token without a sign-in
ReturnsStored(c) ==
    \/ /\ g[c].pc = "ensure_runlock"
       /\ g'[c].pc = "mark_lock" /\ g'[c].bearer = g[c].token
    \/ /\ g[c].pc = "ensure_lock"
       /\ g'[c].pc = "ensure_unlock" /\ g'[c].retToken = Token /\ Token' = Token

\* caller c decides, on either path, about a token whose declared
\* lifetime exceeds min and whose last use is the current time
DecidesJustUsed(c, min) ==
    \/ /\ g[c].pc = "ensure_runlock"
       /\ g[c].token # NoToken /\ g[c].expiresIn > min /\ g[c].lastUsedAt = now
       /\ EnsureRUnlock(c)
    \/ /\ g[c].pc = "ensure_lock"
       /\ Token # NoToken /\ tokenExpiresIn > min /\ tokenLastUsedAt = now
       /\ EnsureLock(c)

\* C6 as stated: for a stored token of any positive declared lifetime
\* whose last use is the current time, ensureToken returns the stored
\* token and signs in on neither path.
C6_JustUsedAnyLifetime ==
    [][\A c \in Callers : DecidesJustUsed(c, 0) => ReturnsStored(c)]_vars

\* C6 (amended): for a stored token whose declared lifetime exceeds the
\* 10 s safety margin and whose last use is the current time, ensureToken
\* returns the stored token and signs in on neither path.
C6_JustUsed ==
    [][\A c \in Callers : DecidesJustUsed(c, Margin) => ReturnsStored(c)]_vars

\* a caller that found the old token due holds the lock and is handed the
\* token another caller installed and has just used, no sign-in made for it
C6_Witness ==
    /\ hasCreds /\ signInCalls = 1
    /\ \E c \in Callers :
          /\ g[c].pc = "ensure_unlock" /\ g[c].err = ""
          /\ g[c].token = PresetToken
          /\ Token = FirstToken /\ g[c].retToken = Token
          /\ tokenExpiresIn > Margin /\ tokenLastUsedAt = now

\* C7: a request out through Do with the client's bearer token has caused
\* exactly one update of the last-used time within that Do, and a request
\* out without the client's token has caused none.
C7_OneMarkPerRequest ==
    \A c \in Callers : g[c].pc = "await" =>
        g[c].marks = (IF g[c].auth = "Bearer" THEN 1 ELSE 0)

\* C8: a client without credentials never issues a sign-in request; a
\* request that came without an Authorization header leaves ensureToken
\* with the stored token if there is one, whatever its lifetime and last
\* use, and otherwise is dispatched without an Authorization header.
C8_NoCredentials ==
    ~hasCreds =>
        /\ signInCalls = 0
        /\ Token = init0.Token
        /\ \A c \in Callers : g[c].op \in {"do", "poll"} =>
              /\ g[c].pc \notin {"ensure_lock", "signin", "signin_wait", "install_token",
                                 "install_expires", "install_last", "ensure_unlock"}
              /\ (g[c].pc \in {"mark_lock", "mark_write", "dispatch", "await"}
                     /\ g[c].auth # "Basic") =>
                    IF Token # NoToken
                    THEN g[c].auth = "Bearer" /\ g[c].bearer = Token
                    ELSE g[c].auth = ""

\* without credentials, a poll request is out with a stored token that the
\* sliding-TTL rule calls due
C8_Witness ==
    /\ ~hasCreds
    /\ Token # NoToken
    /\ Due(tokenExpiresIn, init0.tokenLastUsedAt, 1)
    /\ \E c \in Callers :
          /\ g[c].op = "poll" /\ g[c].pc = "await"
          /\ g[c].auth = "Bearer" /\ g[c].bearer = Token

\* what PollProvisioning has returned once call c ends with ret and url
Returns(c, ret, url) ==
    [call |-> c, op |-> "poll", ret |-> ret, url |-> url,
     polls |-> g[c].polls, checks |-> g[c].checks,
     token |-> NoToken, expiresIn |-> 0, json |-> NoJSON, svc |-> NoSvc]

\* C9: a poll response with status 303, 202 or 200 and a non-empty
\* Location makes PollProvisioning return that Location with no error in
\* the same step: no further poll, no sleep, no call of the completion
\* predicate.  Wherever a poller waits for the transport, such an answer
\* takes it straight to its return, the counts of polls and of predicate
\* invocations as they are.
C9_LocationReturned ==
    \A c \in Callers : (g[c].op = "poll" /\ g[c].pc = "await") =>
        \A r \in Responses :
            (/\ r.kind = "response"
             /\ r.status \in {StatusSeeOther, StatusAccepted, StatusOK}
             /\ r.location # "")
            => Answered(g[c], r) = Finished(g[c], "ok", r.location)

\* PollProvisioning returned the Location of its second poll response
C9_Witness ==
    /\ returned.op = "poll"
    /\ returned.ret = "ok"
    /\ returned.url = "/ready/123"
    /\ returned.polls = 2

\* C10: a poll response with status 500 makes PollProvisioning return the
\* error "provisioning failed: <body>" in the same step, whatever the
\* Location header, with no further poll: wherever a poller waits for the
\* transport, such an answer takes it straight to its return.
C10_ProvisioningFailed ==
    \A c \in Callers : (g[c].op = "poll" /\ g[c].pc = "await") =>
        \A r \in Responses :
            (r.kind = "response" /\ r.status = StatusInternalServerError)
            => Answered(g[c], r) = Finished(g[c], "provisioning failed: " \o r.body, "")

\* PollProvisioning failed with the body of a 500 response
C10_Witness ==
    /\ returned.op = "poll"
    /\ returned.ret = "provisioning failed: boom"
    /\ returned.polls = 1

\* the body is a JSON object
IsObject(body) == body \in {"pending", "running"}

\* call c is waiting for the answer to a poll request
Polling(c) == g[c].op = "poll" /\ g[c].pc = "await"

\* the completion predicate's invocations in call c after the step
ChecksAfter(c) ==
    IF g[c].op = "poll" /\ g[c].pc # "done" /\ g'[c].pc = "done"
    THEN returned'.checks
    ELSE g'[c].checks

\* PollProvisioning's move on a 200 without Location whose body is good
\* for the predicate: one invocation, then the predicate's location
\* returned in the same step, or a sleep of one poll interval
OnOK(c, r, good) ==
    IF ~good
    THEN returned' = Returns(c, "could not umnarshal ok json", "")
    ELSE IF check(r.body)[2]
    THEN returned' = [Returns(c, "ok", check(r.body)[1]) EXCEPT !.checks = @ + 1]
    ELSE g'[c] = [g[c] EXCEPT !.pc = "poll_sleep", !.wake = now + PollInterval,
                              !.checks = @ + 1]

\* a sleeping poller polls again only after its poll interval has elapsed:
\* it leaves the sleep for the head of the loop when the interval is over,
\* and from there, neither cancelled nor past the deadline, it enters Do
\* with the same request
SleepsThenPollsAgain(c) ==
    /\ (g[c].pc = "poll_sleep" /\ g'[c].pc # "poll_sleep" /\ ~g[c].ctxDone)
          => (now >= g[c].wake /\ g'[c].pc = "poll_top" /\ g'[c].polls = g[c].polls)
    /\ (g[c].pc = "poll_top" /\ g'[c] # g[c] /\ ~g[c].ctxDone /\ now <= g[c].deadline)
          => (g'[c].pc \in {"ensure_rlock", "dispatch"} \/ g'[c].ctxDone)

\* C11 as stated: on a 200 without Location the body is decoded and the
\* predicate invoked exactly once, its location returned at once or one
\* poll interval slept before the next poll; a body that is not a JSON
\* object ends polling with the decode error, the predicate not invoked;
\* the predicate is invoked in no other case.
C11_PredicateOnObjectOnly ==
    [][\A c \in Callers :
          /\ Polling(c) => \A r \in Responses :
                (/\ r.kind = "response" /\ r.status = StatusOK /\ r.location = ""
                 /\ DoRecv(c, r))
                => OnOK(c, r, IsObject(r.body))
          /\ ChecksAfter(c) # g[c].checks =>
                /\ Polling(c)
                /\ ChecksAfter(c) = g[c].checks + 1
          /\ SleepsThenPollsAgain(c)]_vars

\* C11 (amended): on a 200 without Location the body is unmarshalled into
\* a map and, when that succeeds, the predicate is invoked exactly once,
\* its location returned at once or one poll interval slept before the
\* next poll; a body json.Unmarshal rejects ends polling with the decode
\* error, the predicate not invoked; a body of JSON null is not rejected
\* and the predicate is invoked with a nil map.  The predicate is invoked
\* in no other case.
C11_PredicateOnDecoded ==
    [][\A c \in Callers :
          /\ Polling(c) => \A r \in Responses :
                (/\ r.kind = "response" /\ r.status = StatusOK /\ r.location = ""
                 /\ DoRecv(c, r))
                => OnOK(c, r, Decodes(r.body))
          /\ ChecksAfter(c) # g[c].checks =>
                /\ Polling(c)
                /\ ChecksAfter(c) = g[c].checks + 1
                /\ \E r \in Responses :
                      /\ r.kind = "response" /\ r.status = StatusOK /\ r.location = ""
                      /\ Decodes(r.body)
                      /\ DoRecv(c, r)
          /\ SleepsThenPollsAgain(c)]_vars

\* two polls answered 200 without Location: the predicate said no on the
\* first and gave its location on the second
C11_Witness ==
    /\ returned.op = "poll"
    /\ returned.ret = "ok"
    /\ returned.url = CheckURL
    /\ returned.polls = 2
    /\ returned.checks = 2

\* C12: a 202 without Location does not end polling: the poller sleeps
\* one poll interval, the predicate not invoked, and then polls again with
\* the same request, so that 202 without Location followed by a 200 whose
\* predicate reports done returns the predicate's location on the second
\* poll.
C12_AcceptedWaits ==
    [][\A c \in Callers :
          /\ Polling(c) => \A r \in Responses :
                (/\ r.kind = "response" /\ r.status = StatusAccepted /\ r.location = ""
                 /\ DoRecv(c, r))
                => g'[c] = [g[c] EXCEPT !.pc = "poll_sleep", !.wake = now + PollInterval]
          /\ SleepsThenPollsAgain(c)
          /\ (Polling(c) /\ g[c].polls = 2 /\ g[c].checks = 0) =>
                \A r \in Responses :
                    (/\ r.kind = "response" /\ r.status = StatusOK /\ r.location = ""
                     /\ r.body = "running"
                     /\ DoRecv(c, r))
                    => returned' = [call |-> c, op |-> "poll", ret |-> "ok",
                                    url |-> CheckURL, polls |-> 2, checks |-> 1,
                                    token |-> NoToken, expiresIn |-> 0,
                                    json |-> NoJSON, svc |-> NoSvc]]_vars

\* the first poll was answered 202 without Location, the second 200 with
\* the predicate reporting done
C12_Witness ==
    /\ returned.op = "poll"
    /\ returned.ret = "ok"
    /\ returned.url = CheckURL
    /\ returned.polls = 2
    /\ returned.checks = 1

\* C13: a 303 without Location ends PollProvisioning in the same step
\* with "polling returned no location", and a status other than 200, 202,
\* 303 and 500 with "unexpected status while polling: <code>", whatever
\* the Location and the body; no further poll, the predicate not invoked:
\* wherever a poller waits for the transport, such an answer takes it
\* straight to its return, the counts of polls and of predicate
\* invocations as they are.
C13_NonRetryable ==
    \A c \in Callers : Polling(c) => \A r \in Responses : r.kind = "response" =>
        /\ (r.status = StatusSeeOther /\ r.location = "")
              => Answered(g[c], r) = Finished(g[c], "polling returned no location", "")
        /\ r.status \notin {StatusOK, StatusAccepted, StatusSeeOther,
                            StatusInternalServerError}
              => Answered(g[c], r) = Finished(g[c], "unexpected status while polling: "
                                                       \o ToString(r.status), "")

\* the second poll was answered with a status the poller does not know
C13_Witness ==
    /\ returned.op = "poll"
    /\ returned.ret = "unexpected status while polling: 418"
    /\ returned.polls = 2

\* C14: against still-working signals only and with the context never
\* cancelled, every PollProvisioning call ends, with the error "timed out
\* while provisioning", and while it runs the clock is never further than
\* one poll interval past its deadline.
C14_TimesOut ==
    /\ \A c \in Callers :
          (g[c].op = "poll") ~>
              (returned.call = c /\ returned.ret = "timed out while provisioning")
    /\ [](\A c \in Callers :
             (g[c].op = "poll" /\ g[c].pc # "done") => now <= g[c].deadline + PollInterval)
    /\ [](returned.op = "poll" => returned.ret = "timed out while provisioning")

\* a call timed out after two polls answered with still-working signals
C14_Witness ==
    /\ returned.op = "poll"
    /\ returned.ret = "timed out while provisioning"
    /\ returned.polls = 2

\* C15: a cancelled PollProvisioning at the head of its loop or in its
\* sleep issues no poll: its next step returns ctx.Err() itself, or (the
\* select having taken the timer) leads to the head of the loop, which
\* returns ctx.Err(); it never returns the timeout error, even with the
\* deadline passed.
C15_CancelWins ==
    [][\A c \in Callers :
          (/\ g[c].op = "poll" /\ g[c].ctxDone
           /\ g[c].pc \in {"poll_top", "poll_sleep"}
           /\ g'[c] # g[c])
          => \/ returned' = Returns(c, CtxErr, "")
             \/ /\ g[c].pc = "poll_sleep"
                /\ g'[c] = [g[c] EXCEPT !.pc = "poll_top", !.wake = 0]]_vars

\* a call cancelled after its first poll returned the context's error
C15_Witness ==
    /\ returned.op = "poll"
    /\ returned.ret = CtxErr
    /\ returned.polls = 1

\* what signIn hands to a caller of its own: the error err, or with "ok"
\* the AuthResponse's token and lifetime
SignInReturns(c, err, token, expiresIn) ==
    [call |-> c, op |-> "signin", ret |-> err, url |-> "", polls |-> 0, checks |-> 0,
     token |-> token, expiresIn |-> expiresIn, json |-> NoJSON, svc |-> NoSvc]

\* C16: the sign-in flow fails immediately with a missing-credentials
\* error and makes no network call if either the key id or the secret is
\* blank: with a blank field, the step that takes signIn past its first
\* check is its return with "define keyid and secret" and no
\* AuthResponse, the request is not sent and none is awaited.
C16_MissingCreds ==
    [][\A c \in Callers :
          (g[c].pc = "signin" /\ (~KeyID \/ ~Secret) /\ g'[c].pc # "signin")
             => /\ signInCalls' = signInCalls
                /\ g'[c].pc # "signin_wait"
                /\ g[c].op = "signin"
                /\ returned' = SignInReturns(c, "define keyid and secret", NoToken, 0)]_vars

\* signIn has returned the missing-credentials error on a client with a
\* key id and no secret
C16_Witness ==
    /\ KeyID /\ ~Secret
    /\ signInCalls = 0
    /\ \E c \in Callers : returned = SignInReturns(c, "define keyid and secret", NoToken, 0)

\* C17: sign-in fails with an auth-failed error carrying the response
\* status and body whenever the auth endpoint answers with any status other
\* than 200, and only a 200 response yields a token and lifetime: on an
\* answer with another status signIn returns "auth failed: status <code>:
\* <body>" and no AuthResponse, to ensureToken or to its own caller; and
\* when it returns an AuthResponse, the answer had status 200 and the
\* token and lifetime are those of its body.
C17_AuthFailed ==
    [][\A c \in Callers : g[c].pc = "signin_wait" =>
          \A r \in AuthResponses : SignInRecv(c, r) =>
             LET failed == "auth failed: status " \o ToString(r.status) \o ": " \o r.body
                 yields == IF g[c].op = "signin"
                           THEN returned'.ret = "ok"
                           ELSE g'[c].pc = "install_token"
             IN  /\ (r.kind = "response" /\ r.status # StatusOK)
                       => /\ ~yields
                          /\ IF g[c].op = "signin"
                             THEN returned' = SignInReturns(c, failed, NoToken, 0)
                             ELSE /\ g'[c].pc = "ensure_unlock"
                                  /\ g'[c].err = failed
                                  /\ g'[c].arToken = NoToken
                 /\ yields
                        => /\ r.kind = "response" /\ r.status = StatusOK
                           /\ IF g[c].op = "signin"
                              THEN returned' = SignInReturns(c, "ok", r.token, r.expiresIn)
                              ELSE /\ g'[c].arToken = r.token
                                   /\ g'[c].arExpiresIn = r.expiresIn]_vars

\* signIn has returned the auth-failed error on a 401 whose body would
\* decode to a token
C17_Witness ==
    \E c \in Callers :
        returned = SignInReturns(c, "auth failed: status 401: {token}", NoToken, 0)

\* what GetJSON or DoJSON hands to its caller: the error err ("ok" for
\* none), and with it the response, the body and the value out points to
JSONReturns(c, op, err, json) ==
    [call |-> c, op |-> op, ret |-> err, url |-> "", polls |-> 0, checks |-> 0,
     token |-> NoToken, expiresIn |-> 0, json |-> json, svc |-> NoSvc]

\* C18: GetJSON and DoJSON called with a non-empty allowed-status set
\* return an unexpected-status error containing the status code and the
\* literal full response body whenever the response status is not in the
\* set, and the status is validated before the body is unmarshalled: on a
\* response with such a status, whatever its body (malformed, 513 bytes
\* long, or a JSON object out could take), the helper, wherever it waits
\* for the transport, returns "unexpected status <code>: <body>" with the
\* response and the body, the body read and closed once, and the value out
\* points to is as it was.
C18_UnexpectedStatus ==
    \A c \in Callers :
        (g[c].pc = "await" /\ g[c].op \in JSONOps /\ g[c].allowed # {}) =>
            \A r \in JSONResponses :
                (r.kind = "response" /\ r.status \notin g[c].allowed) =>
                    Answered(g[c], r) =
                        Finished([g[c] EXCEPT !.res = TRUE, !.body = r.body,
                                              !.reads = 1, !.drained = 1, !.closes = 1],
                                 "unexpected status " \o ToString(r.status)
                                     \o ": " \o r.body, "")

\* a helper given out has returned the status error on a 418 whose body is
\* 513 bytes that are not JSON
C18_Witness ==
    /\ returned.op \in JSONOps
    /\ returned.ret = "unexpected status 418: " \o LongBody
    /\ returned.json.out
    /\ returned.json.outVal = "untouched"

\* C19: DoJSON with a non-nil input that fails to marshal returns the
\* error before any request is built or dispatched, so that no sign-in, no
\* token-use update and no HTTP call happens: whatever out, the allowed
\* statuses and the base URL, the call is over where it starts, with the
\* marshal error and no response; no call with such an input is ever
\* found inside Do; and the step in which a call returns the marshal error
\* is the caller's first and leaves the client's token fields, its lock
\* and the count of sign-ins as they were.
C19_MarshalFirst ==
    /\ [](\A out \in BOOLEAN, allowedStatus \in AllowedStatuses, validURL \in BOOLEAN :
             DoJSONEntry("DoJSON", "unmarshalable", out, allowedStatus, validURL)
                = Finished([Idle EXCEPT !.op = "DoJSON", !.in = "unmarshalable",
                                        !.out = out, !.allowed = allowedStatus],
                           "json: unsupported type", ""))
    /\ [](\A c \in Callers :
             g[c].pc \notin {"idle", "done"} => g[c].in # "unmarshalable")
    /\ [][\A c \in Callers :
             (g'[c] # g[c] /\ returned'.call = c
                 /\ returned'.ret = "json: unsupported type")
                => /\ g[c].pc = "idle"
                   /\ g'[c] = Done
                   /\ \E out \in BOOLEAN :
                         returned' = JSONReturns(c, "DoJSON", "json: unsupported type",
                                                 [NoJSON EXCEPT !.out = out])
                   /\ UNCHANGED <<clientVars, muVars, signInCalls>>]_vars

\* DoJSON has returned the marshal error on a client with credentials and
\* no token, whose next request would sign in: nobody has, and the token
\* fields are as NewClient left them
C19_Witness ==
    /\ returned.op = "DoJSON"
    /\ returned.ret = "json: unsupported type"
    /\ hasCreds /\ Token = NoToken /\ IsZero(tokenLastUsedAt)
    /\ signInCalls = 0
    /\ \A c \in Callers : g[c].pc \in {"idle", "done"}

\* C20: for every response received by GetJSON or DoJSON the body is read
\* to its end and closed exactly once on every path, including the
\* unexpected-status and decode-error paths: when the helper returns on a
\* response, its body has been read once and closed once, and read to its
\* end unless the read itself failed; when the transport gave an error
\* there is no response and nothing is read or closed.  The step looked at
\* is the one in which the helper, waiting for the transport, returns.
C20_BodyClosedOnce ==
    [][\A c \in Callers :
          (g[c].pc = "await" /\ g[c].op \in JSONOps /\ g'[c] # g[c]) =>
             LET j == returned'.json
             IN  /\ g'[c] = Done
                 /\ returned'.call = c
                 /\ IF returned'.ret = "transport"
                    THEN ~j.res /\ j.reads = 0 /\ j.closes = 0 /\ j.drained = 0
                    ELSE /\ j.res
                         /\ j.reads = 1
                         /\ j.closes = 1
                         /\ returned'.ret # "body unreadable" => j.drained = 1]_vars

\* a helper has returned a decode error with the body read to its end and
\* closed once
C20_Witness ==
    /\ returned.op \in JSONOps
    /\ returned.ret = "invalid character"
    /\ returned.json.reads = 1 /\ returned.json.drained = 1 /\ returned.json.closes = 1

\* what a service operation svc given identifier returns with err
ServiceReturns(c, svc, identifier, err, status, json) ==
    [call |-> c, op |-> svc.helper, ret |-> err, url |-> "", polls |-> 0, checks |-> 0,
     token |-> NoToken, expiresIn |-> 0, json |-> json,
     svc |-> [NoSvc EXCEPT !.name = svc.name, !.identifier = identifier,
                           !.status = status]]

\* C21: deletion is idempotent: Delete of a VPS or Pi server returns nil
\* when the server answers 204, 200, 202 or 404, so deleting an already
\* deleted server succeeds; any other status is returned as an
\* unexpected-status error.  Wherever a Delete waits for the transport,
\* a response whose body can be read ends it: with nil on those four
\* statuses, and on any other with "unexpected status <code>: " and the
\* body, cut to 512 bytes.
C21_DeleteIdempotent ==
    \A c \in Callers :
        (g[c].pc = "await" /\ g[c].op = "Delete") =>
            \A r \in DeleteResponses :
                r.kind = "response" =>
                    Answered(g[c], r) =
                        Finished([g[c] EXCEPT !.res = TRUE, !.body = r.body,
                                              !.reads = 1, !.drained = 1, !.closes = 1,
                                              !.status = r.status],
                                 IF r.status \in {204, 200, 202, 404}
                                 THEN "ok"
                                 ELSE "unexpected status " \o ToString(r.status)
                                          \o ": " \o truncateBody(r.body),
                                 "")

\* pi.Service.Delete was answered 404 and has returned nil
C21_Witness ==
    /\ returned.svc = [NoSvc EXCEPT !.name = "pi.Delete", !.identifier = "my-id",
                                    !.status = StatusNotFound]
    /\ returned.ret = "ok"

\* the endpoint as url.Parse and URL.String hand it on: the scheme in
\* lower case, an empty fragment dropped
Printed(endpoint) ==
    LET lowered == [endpoint EXCEPT ![1] = ToLower(@)]
    IN  IF HasSuffix(lowered, "#")
        THEN SubSeq(lowered, 1, Len(lowered) - 1)
        ELSE lowered

\* the request NewRequest has returned is for a URL of the base's scheme
\* and host
OnBase ==
    /\ probe.request.err = ""
    /\ Parse(probe.request.url).Scheme = Parse(probe.baseURL).Scheme
    /\ Parse(probe.request.url).Host = Parse(probe.baseURL).Host

\* C22 as stated: NewRequest uses the endpoint verbatim as the request URL
\* exactly when the endpoint parses as an absolute URL, i.e. has both a
\* scheme and a host, whatever the base URL is; an endpoint lacking a
\* scheme or a host is resolved against the base URL.
C22_VerbatimIffSchemeAndHost ==
    probe.request.done =>
        LET E == Parse(probe.endpoint)
            absolute == E.err = "" /\ E.Scheme # "" /\ E.Host # <<>>
        IN  /\ absolute <=> (probe.request.err = "" /\ probe.request.url = probe.endpoint)
            /\ (E.err = "" /\ ~absolute)
                  => (probe.request.err = "invalid base url" \/ OnBase)

\* C22, amended: NewRequest uses the endpoint as the request URL exactly
\* when the endpoint parses with a scheme, host or no host; the request
\* URL is then the endpoint as url.Parse and URL.String hand it on, equal
\* to the endpoint unless its scheme is in upper case or its fragment
\* empty, whatever the base URL is, valid or not.  An endpoint that parses
\* without a scheme is resolved against the base URL: the request is for a
\* URL of the base's scheme and host, or the base URL is refused.
C22_VerbatimIffScheme ==
    probe.request.done =>
        LET E == Parse(probe.endpoint)
        IN  /\ (E.err = "" /\ E.Scheme # "")
                  => /\ probe.request.err = ""
                     /\ probe.request.url = Printed(probe.endpoint)
            /\ (E.err = "" /\ E.Scheme = "")
                  => /\ probe.request.err = "invalid base url" \/ OnBase
                     /\ ~(probe.request.err = "" /\ probe.request.url = probe.endpoint)

\* an endpoint with a scheme and no host was given with a valid base URL,
\* and the request is for the endpoint
C22_Witness ==
    /\ probe.request.done
    /\ probe.endpoint = <<"https", ":", "/", "vps">>
    /\ probe.baseURL = <<"https", ":", "/", "/", "example.com", "/", "base">>
    /\ probe.request = [done |-> TRUE, err |-> "", url |-> probe.endpoint]

\* NewRequest was given a base URL with scheme and host and an endpoint
\* without a scheme, and has returned
Relative ==
    /\ probe.request.done
    /\ Parse(probe.baseURL).err = ""
    /\ Parse(probe.baseURL).Scheme # ""
    /\ Parse(probe.baseURL).Host # <<>>
    /\ Parse(probe.endpoint).err = ""
    /\ Parse(probe.endpoint).Scheme = ""

\* the path has an element "." or ".."
HasDots(path) ==
    \E i \in 1..Len(path) :
        /\ path[i] \in {".", ".."}
        /\ i = 1 \/ path[i - 1] = "/"
        /\ i = Len(path) \/ path[i + 1] = "/"

BadBase ==
    \/ Parse(probe.baseURL).err # ""
    \/ Parse(probe.baseURL).Scheme = ""
    \/ Parse(probe.baseURL).Host = <<>>

TakesIdentifier(name) == name \notin {"", "pi.GetOperatingSystems"}

\* C26: identifiers are required for all Pi and VPS server operations:
\* every service operation that takes a server identifier (Get, Create,
\* Update, UpdateSSHKey, Reboot, SetPower, Delete) returns
\* ErrEmptyIdentifier and issues no HTTP request when the identifier is
\* blank.  No such operation given a blank identifier is ever on its way
\* to the transport or waiting for it, and one that has returned has
\* returned ErrEmptyIdentifier.
C26_BlankIdentifierRefused ==
    /\ \A c \in Callers :
          (TakesIdentifier(g[c].svc) /\ TrimSpace(g[c].identifier) = "")
             => g[c].pc \in {"idle", "done"}
    /\ (TakesIdentifier(returned.svc.name) /\ TrimSpace(returned.svc.identifier) = "")
          => returned.ret = "identifier is required"

\* C27: Pi Get and Pi GetOperatingSystems return a non-nil error whenever
\* the server answers with a status other than 200, whatever the response
\* body is: wherever one of them waits for the transport, no response with
\* another status makes it return nil.
C27_PiGetNonOKFails ==
    \A c \in Callers :
        (g[c].pc = "await" /\ g[c].svc \in {"pi.Get", "pi.GetOperatingSystems"}) =>
            \A r \in JSONResponses :
                (r.kind = "response" /\ r.status # 200) => Answered(g[c], r).ret # "ok"

\* C28: the core never retries a failed request: a sign-in failure, a
\* transport error from Do or a body-read failure is returned to the
\* immediate caller without the same request being issued again by that
\* call; in PollProvisioning such a failure on any iteration ends the
\* polling with that error.  A call whose sign-in has failed is about to
\* release the lock and return that error; a failed sign-in leaves its
\* caller nowhere else; and a call waiting for the transport returns on a
\* transport error, and a poller on an unreadable body, at once and with
\* that error, whatever number of polls it has made.
C28_NoRetry ==
    \A c \in Callers :
        LET s == g[c]
        IN  /\ s.err # "" =>
                  /\ s.pc = "ensure_unlock"
                  /\ AfterEnsure(s, s.retToken, s.err)
                        = [s EXCEPT !.pc = "done", !.ret = s.err, !.url = ""]
            /\ s.pc \in {"signin", "signin_wait"} =>
                  \A err \in ({"define keyid and secret", DoCtxErr}
                              \cup {signInResult(r) : r \in AuthResponses}) \ {""} :
                      SignInFails(s, err) =
                          IF s.op = "signin"
                          THEN [s EXCEPT !.pc = "done", !.ret = err, !.url = ""]
                          ELSE [s EXCEPT !.pc = "ensure_unlock", !.err = err]
            /\ s.pc = "await" =>
                  \A r \in Responses :
                      /\ r.kind = "transport" =>
                            Answered(s, r)
                               = [s EXCEPT !.pc = "done", !.ret = "transport", !.url = ""]
                      /\ (r.kind = "body unreadable" /\ s.op = "poll") =>
                            Answered(s, r)
                               = [s EXCEPT !.pc = "done", !.ret = "body unreadable",
                                           !.url = ""]

\* the second request of a PollProvisioning met a transport error, and
\* the poller has returned it
C28_Witness ==
    /\ returned.op = "poll"
    /\ returned.ret = "transport"
    /\ returned.polls = 2

\* goroutine c holds the write lock of authMu and is the one taking the step
WritesLocked == muWriter # NoCaller /\ g'[muWriter] # g[muWriter]

\* C29: the only mutable state of a Client shared between concurrent
\* callers is the token fields (Token, tokenExpiresIn, tokenLastUsedAt),
\* and every read and write of them by the client's operations happens
\* while holding authMu; no operation callable concurrently writes any
\* other Client field without that lock.  Every step that changes a token
\* field or any other field of the Client is taken by the goroutine
\* holding the write lock, and every step in which a goroutine copies the
\* token fields is taken while it holds the read lock.
C29_FieldsUnderLock ==
    [][/\ (Token' # Token \/ tokenExpiresIn' # tokenExpiresIn
              \/ tokenLastUsedAt' # tokenLastUsedAt) => WritesLocked
       /\ (KeyID' # KeyID \/ Secret' # Secret \/ piService' # piService) => WritesLocked
       /\ \A c \in Callers :
             (g'[c].pc = "ensure_runlock" /\ g[c].pc # "ensure_runlock")
                => c \in muReaders' /\ muWriter = NoCaller]_vars

\* the sign-in exchanges by other calls that call c, blocked at
\* c.authMu.Lock() in ensureToken, has waited for so far
Waited(c) == signInCalls - g[c].waitFrom

\* call c is granted the lock in ensureToken
Acquires(c) == g[c].pc = "ensure_lock" /\ g'[c].pc # "ensure_lock"

\* C30 as stated: a caller blocked on the token lock inside ensureToken
\* waits for at most one sign-in exchange by other callers before it is
\* granted the lock, however many callers there are and whether the
\* sign-ins succeed or fail
C30_WaitsOneSignIn ==
    [][\A c \in DOMAIN g : Acquires(c) => Waited(c) <= 1]_vars

\* C30 amended: a caller blocked on the token lock inside ensureToken waits
\* for at most one sign-in exchange for each other concurrent call, and for
\* at most one as long as every sign-in returned a token without a positive
\* lifetime, which never falls due
C30_WaitsOneSignInPerCaller ==
    [][\A c \in DOMAIN g :
          Acquires(c) =>
              /\ Waited(c) <= Cardinality(DOMAIN g) - 1
              /\ (~signInFailed /\ ~lifetimeDeclared) => Waited(c) <= 1]_vars

\* a blocked caller has waited for two sign-in exchanges by others, both of
\* which failed, and the lock is free for it
C30_Witness ==
    \E c \in DOMAIN g :
        /\ g[c].pc = "ensure_lock"
        /\ Waited(c) = 2
        /\ signInFailed
        /\ muWriter = NoCaller /\ muReaders = {}

\* C31: every poll of PollProvisioning goes through ensureToken: the
\* bearer token a poll request is out with is the token ensureToken
\* returned to the Do that dispatched it, so a token that fell due or was
\* replaced since the first poll is not carried on.
C31_EveryPollEnsuresToken ==
    \A c \in DOMAIN g :
        (g[c].op = "poll" /\ g[c].pc = "await" /\ g[c].auth = "Bearer") =>
            g[c].retToken = g[c].bearer

\* a call waits for c.authMu, to read or to write
AtLock(c) == g[c].pc \in {"ensure_rlock", "ensure_lock", "mark_lock"}

\* call c is inside the sign-in exchange of ensureToken
InSignIn(c) == g[c].op # "signin" /\ g[c].pc \in {"signin", "signin_wait"}

\* C32: the sign-in exchange inside ensureToken runs with the exclusive
\* lock held and never asks for the lock again, no call that holds the lock
\* waits for it, and so every call that started returns (from some point
\* on no call is under way), provided the goroutines are scheduled and
\* every HTTP exchange is answered.
C32_NoDeadlock ==
    /\ [](\A c \in LockCallers :
            /\ InSignIn(c) => muWriter = c
            /\ (muWriter = c \/ c \in muReaders) => ~AtLock(c))
    /\ <>[](\A c \in LockCallers : g[c].pc \in {"idle", "done"})

\* one call is in its sign-in exchange, holding the lock, while another
\* waits for the lock
C32_Witness ==
    \E c, d \in LockCallers :
        /\ g[c].pc = "signin_wait" /\ muWriter = c
        /\ g[d].pc = "ensure_lock"

\* the token fields of the Client
tokenFields == <<Token, tokenExpiresIn, tokenLastUsedAt>>

\* C33: when the sign-in inside ensureToken fails, the token fields keep
\* their values; Do returns that error with the caller's request never
\* dispatched and the token not marked used; and a call that takes the lock
\* afterwards and finds no token, or a due one, signs in again.
C33_FailedSignIn ==
    [][\A c \in Callers :
          /\ (InSignIn(c) /\ g'[c].pc = "ensure_unlock") =>
                 /\ g'[c].err # ""
                 /\ g'[c].marks = 0 /\ g'[c].polls = g[c].polls
                 /\ UNCHANGED tokenFields
          /\ (g[c].pc = "ensure_unlock" /\ g[c].err # "") =>
                 /\ UNCHANGED tokenFields
                 /\ g'[c].pc # g[c].pc =>
                        /\ g'[c] = Done
                        /\ g[c].op # "do" =>
                               /\ returned'.call = c /\ returned'.ret = g[c].err
                               /\ returned'.polls = g[c].polls
          /\ (Acquires(c) /\ signInFailed /\ hasCreds
                 /\ (Token = NoToken \/ tokenExpired(tokenExpiresIn, tokenLastUsedAt))) =>
                 g'[c].pc = "signin"]_vars

\* a second sign-in is under way after the first one failed: the due token
\* the client started with is still stored, with its lifetime and last use
C33_Witness ==
    /\ signInCalls = 2
    /\ \E c \in Callers : g[c].pc = "signin_wait" /\ g[c].op # "signin"
    /\ Token = PresetToken
    /\ tokenFields = <<init0.Token, init0.tokenExpiresIn, init0.tokenLastUsedAt>>

\* C34: the last-used time markTokenUsed writes belongs to the token the
\* request carries: when a call holds the lock in markTokenUsed, about to
\* write tokenLastUsedAt, the stored token is the one on its request, and
\* not one a concurrent refresh installed since ensureToken returned.
C34_StampsOwnToken ==
    \A c \in Callers : g[c].pc = "mark_write" => g[c].bearer = Token

\* C35: on a client with credentials, a request that came to Do without
\* an Authorization header is dispatched with a non-empty bearer token:
\* ensureToken does not return ("", nil), whatever the auth endpoint's
\* 200 answer holds.
C35_BearerNeverEmpty ==
    hasCreds =>
        \A c \in Callers :
            (g[c].pc \in {"dispatch", "await"} /\ g[c].auth # "Basic") =>
                g[c].auth = "Bearer" /\ g[c].bearer # NoToken

\* PollProvisioning's request goes out through HTTPClient.Do
PollDispatched(c) ==
    g[c].op = "poll" /\ g[c].pc = "dispatch" /\ g'[c].pc = "await"

\* an iteration of PollProvisioning's loop passes the checks at its head
\* and calls Do
PollEntersDo(c) ==
    g[c].op = "poll" /\ g[c].pc = "poll_top" /\ g'[c].pc \notin {"poll_top", "done"}

\* C36 as stated: no poll request of PollProvisioning is dispatched after
\* the deadline has passed or after the context was cancelled, the first
\* poll, whose token has to be obtained first, included
C36_NoPollAfterDeadline ==
    [][\A c \in Callers :
          PollDispatched(c) => ~g[c].ctxDone /\ now <= g[c].deadline]_vars

\* C36 amended: no iteration of PollProvisioning's loop calls Do after the
\* deadline has passed or after the context was cancelled, and no poll
\* request is dispatched on a cancelled context; the deadline is looked at
\* at the head of the iteration only
C36_NoIterationAfterDeadline ==
    [][\A c \in Callers :
          /\ PollEntersDo(c) => ~g[c].ctxDone /\ now <= g[c].deadline
          /\ PollDispatched(c) => ~g[c].ctxDone]_vars

\* the first poll of a PollProvisioning is out after the deadline: the
\* deadline passed while the call signed in
C36_Witness ==
    \E c \in Callers :
        /\ g[c].op = "poll" /\ g[c].pc = "await" /\ g[c].polls = 1
        /\ signInCalls = 1 /\ g[c].bearer = FirstToken
        /\ now > g[c].deadline

\* the PATCH body has key k with the JSON text of what the last call on
\* that field asks for: nothing if there was none or it was an Unset, null
\* after a Clear, the quoted value after a Set
BodyFollows(k, call) ==
    LET body == MarshalJSON(probe.req)
    IN  IF call = <<>> \/ call[1] = "Unset"
        THEN k \notin DOMAIN body
        ELSE /\ k \in DOMAIN body
             /\ body[k] = IF call[1] = "Clear" THEN "null" ELSE "\"" \o call[2] \o "\""

\* C37: after any sequence of SetName, ClearName and UnsetName calls on a
\* vps.UpdateRequest the marshalled body has for "name" what the last of
\* them asks for (the value, null, or no key), likewise "iso_image" with
\* SetISOImage, ClearISOImage and UnsetISOImage, and a value and the
\* cleared mark are never both recorded.
C37_LastCallDecides ==
    /\ BodyFollows("name", probe.name)
    /\ BodyFollows("iso_image", probe.iso)
    /\ ~(probe.req.clearName /\ probe.req.Name # <<>>)
    /\ ~(probe.req.clearISOImage /\ probe.req.ISOImage # <<>>)

\* a name set after it was cleared, an ISO image cleared after it was set,
\* and another field set: the body has the name, null for iso_image, and
\* the other field
C37_Witness ==
    /\ probe.nameBefore = <<"Clear">> /\ probe.name = <<"Set", "null">>
    /\ probe.isoBefore = <<"Set", "vm">> /\ probe.iso = <<"Clear">>
    /\ DOMAIN MarshalJSON(probe.req) = {"name", "iso_image", "tablet"}
    /\ MarshalJSON(probe.req)["name"] = "\"null\""
    /\ MarshalJSON(probe.req)["iso_image"] = "null"

\* call c returns in this step
ReturnsNow(c) == g[c].pc # "done" /\ g'[c] = Done /\ returned'.call = c

\* C38: RebootWithGrace and ShutdownWithGrace start their wait only when
\* the reboot or shutdown request succeeded, and return that request's
\* error with a zero response otherwise; the timer is set to the grace
\* period, to the two-minute default if that is not positive; they return
\* the request's response only once the timer has fired; and when the
\* context is cancelled before that, the wait ends with the context's
\* error and a zero response.
C38_WaitsGracePeriod ==
    [][\A c \in Callers :
          /\ (g[c].phase = "request" /\ g'[c].phase = "wait") =>
                 /\ g[c].pc = "await" /\ g'[c].res /\ Decodes(g'[c].body)
                 /\ g'[c].wake = now + (IF g[c].gracePeriod <= 0 THEN DefaultGracePeriod
                                                                  ELSE g[c].gracePeriod)
          /\ (g[c].phase = "request" /\ ReturnsNow(c)) =>
                 /\ returned'.ret # "ok"
                 /\ returned'.svc.phase = "request"
                 /\ returned'.json.outVal = "untouched"
          /\ (g[c].phase = "wait" /\ ReturnsNow(c)) =>
                 IF returned'.ret = "ok"
                 THEN /\ now >= g[c].wake
                      /\ returned'.json.outVal = g[c].outVal
                 ELSE /\ returned'.ret = CtxErr /\ g[c].ctxDone
                      /\ returned'.json.outVal = "untouched"
          /\ (g[c].pc = "grace_select" /\ now < g[c].wake /\ g'[c].ctxDone) =>
                 g'[c].pc = "grace_ctx"
          /\ (g[c].pc = "grace_ctx" /\ g'[c] # g[c]) =>
                 ReturnsNow(c) /\ returned'.ret = CtxErr]_vars

\* a ShutdownWithGrace has returned the response of its request, after
\* the default grace period
C38_Witness ==
    /\ returned.ret = "ok"
    /\ returned.svc.name = "vps.SetPower" /\ returned.svc.phase = "wait"
    /\ returned.json.outVal = "running"
    /\ now > DefaultGracePeriod

====
